---- MODULE Spec2Model ----
(***************************************************************************)
(* State-machine model of the DBEB RAG backend (src/backend/app): the      *)
(* session-scoped retrieval tools, the agent graph, the chat stream        *)
(* handlers of /agent and /stream, and the /agent endpoint.                *)
(***************************************************************************)
EXTENDS Integers, Sequences, FiniteSets, TLC

(* ------------------------------------------------------------------ *)
(* Bounds of the model                                                  *)
(* ------------------------------------------------------------------ *)
MaxStore == 2     \* chunks held by the session collection
MaxSplits == 2    \* chunks one uploaded document is split into
MaxHops == 2      \* AGENT invocations of one turn that may request tools
MaxCalls == 2     \* tool-call requests in one model message
MaxChunks == 2    \* stream chunks the model emits in one turn
MaxGlobal == 1    \* chunks in the global collection when a new /agent request is taken
MaxRuns == 2      \* times the service is started

(* ------------------------------------------------------------------ *)
(* Values                                                               *)
(* ------------------------------------------------------------------ *)
None == "None"                       \* Python None
Empty == ""                          \* the empty string
Falsy_NoneOnly == {None}              \* (variant: "if thread_id is None")
Falsy == {None, Empty}               \* "if not thread_id"
Req == {"r1", "r2"}                  \* request slots served concurrently
Threads == {"s1", "s2"}              \* thread ids a client may send
Uuid == [r \in Req |-> IF r = "r1" THEN "u1" ELSE "u2"]   \* str(uuid.uuid4()): fresh per request
Endpoints == {"agent", "stream"}
Questions == {"q1", "q2"}            \* user message texts
ToolNames == {"search_global_knowledge", "search_session_knowledge"}
K == 4                               \* k of similarity_search

Min(a, b) == IF a < b THEN a ELSE b
Last(s) == s[Len(s)]

RECURSIVE SeqsUpTo(_, _)
SeqsUpTo(S, n) ==
    IF n = 0 THEN {<<>>}
    ELSE LET shorter == SeqsUpTo(S, n - 1)
         IN  shorter \cup {Append(s, x) : s \in shorter, x \in S}

(* ------------------------------------------------------------------ *)
(* State                                                                *)
(* ------------------------------------------------------------------ *)
VARIABLES
    session_context,   \* value of the ContextVar in each Context (None = unset default)
    dbeb_sessions,     \* the session collection: sequence of stored chunks
    dbeb,              \* the global collection
    client,            \* per request: "connected" or "gone"
    chat,              \* per request: the chat stream handler and its graph run
    seen,              \* per request: the events the handler's loop has consumed (history)
    prev_turn,         \* per thread id: messages of the latest turn that reached END (history)
    agent,             \* the /agent request being served: endpoint and event_generator
    job,               \* the ingest or evaluate workflow generator of that request
    tool,              \* the latest call of a tool made outside a chat turn
    upload,            \* the /upload request being served and its process_stream
    evaluation,        \* the /evaluate-candidates request being served
    session_upload,    \* the latest /upload-session request: its answer and temporary file
    candidate,         \* the latest evaluate_candidate call: its resume text, prompt and result
    server,            \* the standalone server: _graph, _graph_lock and the get_graph calls
    qdrant,            \* the vector store: which collections and index exist
    startup            \* the startup handler: ensure_collections_exist

storeVars == <<dbeb_sessions, dbeb>>
chatVars == <<session_context, client, chat, seen, prev_turn>>
agentVars == <<agent, job>>
opsVars == <<upload, evaluation, session_upload, candidate, server, qdrant, startup>>
vars == <<session_context, dbeb_sessions, dbeb, client, chat, seen, prev_turn, agent, job, tool,
          upload, evaluation, session_upload, candidate, server, qdrant, startup>>

(* Contexts: every request is served in its own task, hence its own Context; *)
(* astream_events drives the graph in a child task whose Context is a copy.  *)
\* (variant: one Context shared by all requests, as a module-level global would be)
TaskContext_Shared(r) == <<"task", "r1">>
TaskContext(r) == <<"task", r>>
GraphContext(r) == <<"graph", TaskContext(r)[2]>>
Contexts == {<<k, r>> : k \in {"task", "graph"}, r \in Req}

(* ------------------------------------------------------------------ *)
(* Messages                                                             *)
(* ------------------------------------------------------------------ *)
NoCalls == <<>>
NoId == <<0, 0>>
HumanMessage(content) ==
    [type |-> "human", content |-> content, tool_calls |-> NoCalls, tool_call_id |-> NoId]
AIMessage(calls) ==
    [type |-> "ai", content |-> <<"response">>, tool_calls |-> calls, tool_call_id |-> NoId]
ToolMessage(content, call) ==
    [type |-> "tool", content |-> <<content>>, tool_calls |-> NoCalls, tool_call_id |-> call.id]

\* the tool-call requests of the n-th message of a turn: names with fresh ids
ToolCalls(names, n) == [i \in 1..Len(names) |-> [name |-> names[i], id |-> <<n, i>>]]

\* full_content of _handle_chat / stream
FullContent(message, context) ==
    IF context \notin Falsy THEN <<"Context from uploaded document:", context, "User question:", message>>
    ELSE <<message>>

(* ------------------------------------------------------------------ *)
(* Knowledge store                                                      *)
(* ------------------------------------------------------------------ *)
\* a document as split by the text splitter: n chunks, not yet tagged
Splits(n) == [i \in 1..n |-> [page_content |-> i, session_id |-> None]]

\* add_documents / aadd_documents: every document becomes a new point with an
\* id of its own, whatever the collection already holds
\* (variant: documents the collection already holds are skipped)
add_documents_Dedup(coll, documents) ==
    coll \o SelectSeq(documents, LAMBDA d : \A i \in 1..Len(coll) : coll[i] # d)
add_documents(coll, documents) == coll \o documents

\* add_session_documents: tag every chunk, then append to the session collection
\* (variant: the chunks are stored without the session tag)
add_session_documents_Untagged(coll, documents, thread_id) == add_documents(coll, documents)
add_session_documents(coll, documents, thread_id) ==
    add_documents(coll, [i \in 1..Len(documents) |-> [documents[i] EXCEPT !.session_id = thread_id]])

\* (variant: the search issued without its filter)
Matching_NoFilter(coll, value) == 1..Len(coll)
\* the points of a collection that pass the metadata filter session_id = value
Matching(coll, value) == {i \in 1..Len(coll) : coll[i].session_id = value}

\* similarity_search(query, k, filter): every ranking the index may produce,
\* as the set of points returned (at most k of those passing the filter)
similarity_search(coll, candidates, k) ==
    {S \in SUBSET candidates : Cardinality(S) = Min(k, Cardinality(candidates))}

Chunk(coll, i) == [point |-> i, page_content |-> coll[i].page_content,
                   session_id |-> coll[i].session_id]

(* ------------------------------------------------------------------ *)
(* Text, stream events and frames                                       *)
(* ------------------------------------------------------------------ *)
\* a text is a sequence of characters; NL is the newline character
NL == "\n"
Replace(text, old, new) == [i \in 1..Len(text) |-> IF text[i] = old THEN new ELSE text[i]]

\* chunk.content is a str, or a list of blocks (dicts with or without "text", or other values)
StrContent(text) == [form |-> "str", text |-> text, blocks |-> <<>>]
ListContent(blocks) == [form |-> "list", text |-> <<>>, blocks |-> blocks]
TextBlock(text) == [isdict |-> TRUE, has_text |-> TRUE, text |-> text]    \* {"text": text, ...}
OtherBlock == [isdict |-> TRUE, has_text |-> FALSE, text |-> <<>>]         \* a dict without "text"
RawBlock(text) == [isdict |-> FALSE, has_text |-> FALSE, text |-> text]    \* str(block) = text

\* block.get("text", "") if isinstance(block, dict) else str(block)
BlockText(block) ==
    IF block.isdict THEN (IF block.has_text THEN block.text ELSE <<>>) ELSE block.text

RECURSIVE Join(_)
Join(blocks) == IF blocks = <<>> THEN <<>> ELSE BlockText(Head(blocks)) \o Join(Tail(blocks))

\* the data of a token frame: agent_endpoint.py lines 66-73, endpoints.py lines 67-75
ChunkData(content) ==
    IF content.form = "list" THEN Join(content.blocks)
    ELSE IF content.text # <<>> THEN content.text ELSE <<>>

NoChunk == [cls |-> None, content |-> StrContent(<<>>), tool_call_chunks |-> 0]
AIMessageChunk(content, ntool) ==
    [cls |-> "AIMessageChunk", content |-> content, tool_call_chunks |-> ntool]
StreamEvent(chunk) == [event |-> "on_chat_model_stream", chunk |-> chunk]
LifecycleEvent(kind) == [event |-> kind, chunk |-> NoChunk]
NoEvent == LifecycleEvent(None)

\* what a handler yields: one chunk of bytes, holding an event line, a data line, or both
EventLine(event) == [event |-> event, has_data |-> FALSE, data |-> <<>>]
DataLine(data) == [event |-> None, has_data |-> TRUE, data |-> data]
Frame(event, data) == [event |-> event, has_data |-> TRUE, data |-> data]
DONE == <<"[DONE]">>
ErrorEvent(endpoint) == IF endpoint = "agent" THEN "error" ELSE "sse-error"

\* The frames a client parses out of the yielded bytes: an event line names the
\* frame, the data line (always followed by the blank line here) completes it.
RECURSIVE ParseFrames(_, _)
ParseFrames(bytes, pending) ==
    IF bytes = <<>> THEN <<>>
    ELSE LET b == Head(bytes)
             name == IF b.event # None THEN b.event ELSE pending
         IN  IF ~b.has_data THEN ParseFrames(Tail(bytes), name)
             ELSE <<[event |-> name, data |-> b.data]>> \o ParseFrames(Tail(bytes), None)
Frames(r) == ParseFrames(chat[r].out, None)

(* ------------------------------------------------------------------ *)
(* The agent graph (services/llm.py)                                    *)
(* ------------------------------------------------------------------ *)
\* (variant: a plain state key, overwritten by a node's output)
add_messages_Overwrite(left, right) == right
\* State(MessagesState): the reducer of "messages" appends a node's output
add_messages(left, right) == left \o right

\* (variant: the edge agent -> tools taken unconditionally)
tools_condition_AlwaysTools(messages) == "tools"
\* (variant: the edge agent -> END taken unconditionally)
tools_condition_AlwaysEnd(messages) == "END"
\* langgraph.prebuilt.tools_condition on the state's last message
tools_condition(messages) ==
    IF Len(Last(messages).tool_calls) > 0 THEN "tools" ELSE "END"

\* workflow.compile() takes no checkpointer: nothing is stored for a thread id,
\* so a run starts from the empty state, whatever earlier turns produced
InitialState(stored, empty) == empty

\* search_session_knowledge: the thread id is read from the tool's Context
\* what one tool call does: the string it returns, the thread id it read, the
\* points found, whether the store was searched, whether that search raised,
\* and whether the exception left the tool function
Outcome(content, read, hits, searched, raised, propagates) ==
    [content |-> content, read |-> read, hits |-> hits, searched |-> searched,
     raised |-> raised, propagates |-> propagates]

\* the body of search_session_knowledge for a thread id and a session collection
search_session_knowledge(thread_id, coll) ==
    IF thread_id \in Falsy
    THEN {Outcome("No session context found", thread_id, {}, FALSE, FALSE, FALSE)}
    ELSE {Outcome(IF S = {} THEN "No relevant information found" ELSE "docs",
                  thread_id, {Chunk(coll, i) : i \in S}, TRUE, FALSE, FALSE)
            : S \in similarity_search(coll, Matching(coll, thread_id), K)}
         \cup {Outcome("Error searching session documents", thread_id, {}, TRUE, TRUE, FALSE)}

\* search_session_knowledge: the thread id is read from the tool's Context
SessionSearchOutcomes(r) ==
    search_session_knowledge(session_context[GraphContext(r)], dbeb_sessions)

\* search_global_knowledge: no filter, no session, and no except clause: an
\* exception of the store leaves the tool function
GlobalSearchOutcomes ==
    { Outcome("docs", "-", {}, FALSE, FALSE, FALSE),
      Outcome("Error: store", "-", {}, FALSE, TRUE, TRUE) }

ToolOutcomes(r, name) ==
    IF name = "search_session_knowledge" THEN SessionSearchOutcomes(r) ELSE GlobalSearchOutcomes

\* ToolNode: one outcome per requested call, in the order of the requests
ToolRuns(r, calls) ==
    {res \in [1..Len(calls) -> UNION {ToolOutcomes(r, n) : n \in ToolNames}] :
        \A i \in 1..Len(calls) : res[i] \in ToolOutcomes(r, calls[i].name)}

\* ToolNode's output: one ToolMessage per call, in the order of the calls
ToolResults(calls, res) == [i \in 1..Len(calls) |-> ToolMessage(res[i].content, calls[i])]

RECURSIVE UnionHits(_)
UnionHits(res) == IF res = <<>> THEN {} ELSE Head(res).hits \cup UnionHits(Tail(res))

\* search_session_knowledge called as a function, in a Context of the caller's
\* choice: what session_context.get() gave it, and what it did
NoCall == [called |-> FALSE, value |-> None, outcome |-> Outcome("", None, {}, FALSE, FALSE, FALSE)]
SessionToolCall(c) ==
    /\ \E outcome \in search_session_knowledge(session_context[c], dbeb_sessions) :
            tool' = [called |-> TRUE, value |-> session_context[c], outcome |-> outcome]
    /\ UNCHANGED <<storeVars, opsVars, chatVars, agentVars>>

(* ------------------------------------------------------------------ *)
(* The chat stream handlers: _handle_chat (/agent), event_generator     *)
(* (/stream). chat[r].pc is the handler's position:                     *)
(*   idle, created (generator not started), await_event (in async for), *)
(*   poll (awaiting request.is_disconnected()), y_half, y_token,        *)
(*   y_done, y_error (suspended at a yield), finished.                  *)
(* ------------------------------------------------------------------ *)
IdleChat ==
    [endpoint |-> "agent", thread_id |-> None, content |-> <<>>, pc |-> "idle",
     token |-> None, node |-> "START", messages |-> <<>>, input |-> <<>>,
     prev_input |-> <<>>, agent_runs |-> 0, tools_runs |-> 0, nchunks |-> 0,
     event |-> NoEvent, out |-> <<>>, half |-> <<>>, after |-> "", exit |-> "",
     reads |-> {}, hits |-> {}, searches |-> 0,
     raised |-> {}, escaped |-> {}, cause |-> ""]

\* ContextVar.set returns a token holding the old value; ContextVar.reset restores it
ContextSet(ctx, c, value) == [ctx EXCEPT ![c] = value]
\* (variant: the token is dropped and the binding left in place)
ContextReset_Skipped(ctx, c, old_value) == ctx
ContextReset(ctx, c, old_value) == [ctx EXCEPT ![c] = old_value]

\* a task created in Context c runs in a copy of c
ContextCopy(ctx, from, to) == [ctx EXCEPT ![to] = ctx[from]]

\* yield of one frame: /agent yields the frame as one bytes object, /stream
\* yields the event line and the data line separately
Yield(h, event, data, after) ==
    IF h.endpoint = "agent"
    THEN [h EXCEPT !.out = Append(@, Frame(event, data)), !.pc = after]
    ELSE [h EXCEPT !.out = Append(@, EventLine(event)), !.pc = "y_half",
                   !.half = data, !.after = after]

\* thread_id = thread_id or str(uuid.uuid4())
ThreadIdOf(r, thread_id) == IF thread_id \notin Falsy THEN thread_id ELSE Uuid[r]

\* the handler's generator object, its body not yet started
Created(r, endpoint, thread_id, message, context) ==
    [IdleChat EXCEPT !.endpoint = endpoint,
                     !.thread_id = ThreadIdOf(r, thread_id),
                     !.content = FullContent(message, context),
                     !.pc = "created"]

\* the Contexts of a new request's tasks: copies of the server's base Context
FreshContext(r) ==
    [c \in Contexts |->
        IF c \in {TaskContext(r), GraphContext(r)} THEN None ELSE session_context[c]]

\* A request arrives and its handler (an async generator) is created; the
\* request's task starts from the server's base Context, where the variable is unset.
NewRequest(r, endpoint, thread_id, message, context) ==
    /\ chat[r].pc \in {"idle", "finished"}
    /\ chat' = [chat EXCEPT ![r] = Created(r, endpoint, thread_id, message, context)]
    /\ client' = [client EXCEPT ![r] = "connected"]
    /\ session_context' = FreshContext(r)
    /\ seen' = [seen EXCEPT ![r] = <<>>]
    /\ UNCHANGED <<storeVars, tool, opsVars, agentVars, prev_turn>>

\* First __anext__: session_context.set, then graph.astream_events starts the
\* graph run in a child task (no await in between); START -> agent.
HandlerStart(r) ==
    LET h == chat[r]
        msg == HumanMessage(h.content)
        state == add_messages(InitialState(prev_turn[h.thread_id], <<>>), <<msg>>)
        bound == ContextSet(session_context, TaskContext(r), h.thread_id)
    IN  /\ h.pc = "created"
        /\ session_context' = ContextCopy(bound, TaskContext(r), GraphContext(r))
        /\ chat' = [chat EXCEPT ![r] = [h EXCEPT
                        !.token = session_context[TaskContext(r)],
                        !.messages = state, !.input = state,
                        !.node = "agent", !.agent_runs = 1,
                        !.pc = "await_event"]]
        /\ UNCHANGED <<storeVars, tool, opsVars, agentVars, client, seen, prev_turn>>

\* agent_node, while the model streams: one on_chat_model_stream event
ModelChunk(r, chunk) ==
    LET h == chat[r]
    IN  /\ h.pc = "await_event" /\ h.node = "agent"
        /\ h.nchunks < MaxChunks
        /\ chat' = [chat EXCEPT ![r] = [h EXCEPT
                        !.nchunks = @ + 1, !.event = StreamEvent(chunk), !.pc = "poll"]]
        /\ UNCHANGED <<storeVars, tool, opsVars, agentVars, session_context, client, seen, prev_turn>>

\* The handlers pass astream_events a config with a thread_id only, so the
\* compiled graph runs under the library's default recursion limit (25
\* super-steps); the model scales it to its bound on the rounds of a turn.
\* A run that has used its steps and still has a node to run is ended by the
\* library with a recursion error.
\* (variant: the run is never out of steps)
RecursionLimit == 2 * MaxHops + 1
OutOfSteps_Never(h) == FALSE
OutOfSteps(h) == h.agent_runs + h.tools_runs >= RecursionLimit

\* agent_node returns {"messages": [response]}; add_messages appends it and the
\* conditional edge picks the next node
AgentReturn(r, names) ==
    LET h == chat[r]
        response == AIMessage(ToolCalls(names, Len(h.messages) + 1))
        messages == add_messages(h.messages, <<response>>)
    IN  /\ h.pc = "await_event" /\ h.node = "agent"
        /\ names # <<>> => ~OutOfSteps(h)
        /\ chat' = [chat EXCEPT ![r] = [h EXCEPT
                        !.messages = messages, !.node = tools_condition(messages),
                        !.event = LifecycleEvent("on_chat_model_end"), !.pc = "poll"]]
        /\ UNCHANGED <<storeVars, tool, opsVars, agentVars, session_context, client, seen, prev_turn>>

\* except Exception: the error frame, newlines replaced by spaces
\* (variant: the failure reported as a normal end of the stream)
OnException_Done(h, e) ==
    Yield([h EXCEPT !.node = "failed", !.exit = "exception"], "done", DONE, "y_done")
OnException(h, e) ==
    Yield([h EXCEPT !.node = "failed", !.exit = "exception"],
          ErrorEvent(h.endpoint), Replace(e, NL, " "), "y_error")

\* the model raises inside agent_node: the exception leaves astream_events
AgentRaise(r, e) ==
    LET h == chat[r]
    IN  /\ h.pc = "await_event" /\ h.node = "agent"
        /\ chat' = [chat EXCEPT ![r] = OnException([h EXCEPT !.cause = "model"], e)]
        /\ UNCHANGED <<storeVars, tool, opsVars, agentVars, session_context, client, seen, prev_turn>>

\* agent_node returns a response with tool calls when the run is out of
\* steps: the recursion error leaves astream_events into the except clause
GraphRecursionError(r, names) ==
    LET h == chat[r]
        response == AIMessage(ToolCalls(names, Len(h.messages) + 1))
    IN  /\ h.pc = "await_event" /\ h.node = "agent"
        /\ names # <<>> /\ OutOfSteps(h)
        /\ chat' = [chat EXCEPT ![r] =
                      OnException([h EXCEPT !.messages = add_messages(h.messages, <<response>>),
                                            !.cause = "recursion"],
                                  <<"Recursion limit reached">>)]
        /\ UNCHANGED <<storeVars, tool, opsVars, agentVars, session_context, client, seen, prev_turn>>

\* the tools whose search raised, and those whose exception left the tool
Raised(calls, res) == {calls[i].name : i \in {k \in 1..Len(calls) : res[k].raised}}
Escaped(calls, res) == {calls[i].name : i \in {k \in 1..Len(calls) : res[k].propagates}}

\* the state of the run after tool_node: one ToolMessage per call appended,
\* then the edge tools -> agent
AfterTools(h, calls, res) ==
    LET messages == add_messages(h.messages, ToolResults(calls, res))
        sess == {i \in 1..Len(calls) : calls[i].name = "search_session_knowledge"}
    IN  [h EXCEPT !.messages = messages, !.node = "agent",
                  !.prev_input = h.input, !.input = messages,
                  !.agent_runs = @ + 1, !.tools_runs = @ + 1,
                  !.reads = @ \cup {res[i].read : i \in sess},
                  !.hits = @ \cup UnionHits(res),
                  !.searches = @ + Cardinality({i \in sess : res[i].searched}),
                  !.raised = @ \cup Raised(calls, res),
                  !.escaped = @ \cup Escaped(calls, res)]

\* tool_node: every requested call runs, the results are appended in the order
\* of the requests, then the edge tools -> agent
ToolsStep(r) ==
    LET h == chat[r]
        calls == Last(h.messages).tool_calls
    IN  /\ h.pc = "await_event" /\ h.node = "tools"
        /\ \E res \in ToolRuns(r, calls) :
             /\ Escaped(calls, res) = {}
             /\ chat' = [chat EXCEPT ![r] = [AfterTools(h, calls, res) EXCEPT
                        !.event = LifecycleEvent("on_tool_end"), !.pc = "poll"]]
        /\ UNCHANGED <<storeVars, tool, opsVars, agentVars, session_context, client, seen, prev_turn>>

\* tool_node when the exception of a search leaves its tool: ToolNode either
\* turns it into an error ToolMessage (handle_tool_errors) and the turn goes
\* on, or lets it pass, and it leaves astream_events into the handler's
\* except clause; which of the two depends on the installed langgraph
ToolsRaise(r, handled) ==
    LET h == chat[r]
        calls == Last(h.messages).tool_calls
    IN  /\ h.pc = "await_event" /\ h.node = "tools"
        /\ \E res \in ToolRuns(r, calls) :
             /\ Escaped(calls, res) # {}
             /\ chat' = [chat EXCEPT ![r] =
                    IF handled
                    THEN [AfterTools(h, calls, res) EXCEPT
                            !.event = LifecycleEvent("on_tool_end"), !.pc = "poll"]
                    ELSE OnException([h EXCEPT !.cause = "tool",
                                               !.raised = @ \cup Raised(calls, res),
                                               !.escaped = @ \cup Escaped(calls, res)],
                                     <<"store", NL, "unreachable">>)]
        /\ UNCHANGED <<storeVars, tool, opsVars, agentVars, session_context, client, seen, prev_turn>>

\* the graph reached END: astream_events is exhausted, the loop ends, done is yielded
StreamEndStep(r) ==
    LET h == chat[r]
    IN  /\ h.pc = "await_event" /\ h.node = "END"
        /\ chat' = [chat EXCEPT ![r] = Yield([h EXCEPT !.exit = "normal"], "done", DONE, "y_done")]
        /\ UNCHANGED <<storeVars, tool, opsVars, agentVars, session_context, client, seen>>

StreamEnd(r) ==
    /\ StreamEndStep(r)
    /\ prev_turn' = [prev_turn EXCEPT ![chat[r].thread_id] = chat[r].messages]

\* the loop body for one event: the disconnect check, then the token frame
LoopBody(h, gone) ==
    IF gone
    THEN Yield([h EXCEPT !.exit = "disconnect"], "done", DONE, "y_done")   \* break, then line 78
    ELSE LET chunk == h.event.chunk
             data == ChunkData(chunk.content)
         IN  IF /\ h.event.event = "on_chat_model_stream"
                /\ chunk.cls = "AIMessageChunk" /\ chunk.tool_call_chunks = 0
                /\ data # <<>>
             THEN Yield(h, "token", data, "y_token")
             ELSE [h EXCEPT !.pc = "await_event"]

PollStep(r) ==
    LET h == chat[r]
    IN  /\ h.pc = "poll"
        /\ chat' = [chat EXCEPT ![r] = LoopBody(h, client[r] = "gone")]
        /\ UNCHANGED <<storeVars, tool, opsVars, agentVars, session_context, client, prev_turn>>

\* ... recording the events that passed the disconnect check
Poll(r) ==
    /\ PollStep(r)
    /\ seen' = [seen EXCEPT ![r] = IF client[r] = "gone" THEN @ ELSE Append(@, chat[r].event)]

\* the consumer asks for the next bytes: /stream yields the data line of the frame
ResumeHalf(r) ==
    LET h == chat[r]
    IN  /\ h.pc = "y_half"
        /\ chat' = [chat EXCEPT ![r] = [h EXCEPT
                        !.out = Append(@, DataLine(h.half)), !.half = <<>>,
                        !.pc = h.after, !.after = ""]]
        /\ UNCHANGED <<storeVars, tool, opsVars, agentVars, session_context, client, seen, prev_turn>>

\* the consumer asks for the next bytes after a token frame: back to the loop
ResumeLoop(r) ==
    LET h == chat[r]
    IN  /\ h.pc = "y_token"
        /\ chat' = [chat EXCEPT ![r] = [h EXCEPT !.pc = "await_event"]]
        /\ UNCHANGED <<storeVars, tool, opsVars, agentVars, session_context, client, seen, prev_turn>>

\* the consumer asks for the next bytes after done or error: finally, reset
FinallyStep(r) ==
    LET h == chat[r]
    IN  /\ h.pc \in {"y_done", "y_error"}
        /\ session_context' = ContextReset(session_context, TaskContext(r), h.token)
        /\ chat' = [chat EXCEPT ![r] = [h EXCEPT !.pc = "finished"]]
        /\ UNCHANGED <<storeVars, tool, opsVars, client, seen, prev_turn>>

Finally(r) == FinallyStep(r) /\ UNCHANGED agentVars

\* the client goes away while its request is being served
ClientDisconnect(r) ==
    /\ chat[r].pc \notin {"idle", "finished"}
    /\ client[r] = "connected"
    /\ client' = [client EXCEPT ![r] = "gone"]
    /\ UNCHANGED <<storeVars, tool, opsVars, agentVars, session_context, chat, seen, prev_turn>>

(* ------------------------------------------------------------------ *)
(* The intent router (agent_router.py). Texts are sequences of          *)
(* characters; confidences are in hundredths.                           *)
(* ------------------------------------------------------------------ *)
\* a message is its text, a sequence of characters
Message(text) == [text |-> text]
NoMessage == Message(<<>>)

\* str.lower on the characters of a text
UpperCase == <<"A", "B", "C", "D", "E", "F", "G", "H", "I", "J", "K", "L", "M",
               "N", "O", "P", "Q", "R", "S", "T", "U", "V", "W", "X", "Y", "Z">>
LowerCase == <<"a", "b", "c", "d", "e", "f", "g", "h", "i", "j", "k", "l", "m",
               "n", "o", "p", "q", "r", "s", "t", "u", "v", "w", "x", "y", "z">>
LowerChar(c) ==
    IF \E i \in 1..Len(UpperCase) : UpperCase[i] = c
    THEN LowerCase[CHOOSE i \in 1..Len(UpperCase) : UpperCase[i] = c]
    ELSE c
LowerText(text) == [i \in 1..Len(text) |-> LowerChar(text[i])]

\* kw in text
IsSubstring(kw, text) ==
    \E i \in 1..(Len(text) - Len(kw) + 1) : SubSeq(text, i, i + Len(kw) - 1) = kw

\* kw in message_lower
Contains(message, kw) == IsSubstring(kw, LowerText(message.text))

\* str.lower on the file names and suffixes that occur, str.strip on a cell
Lower(name) ==
    CASE name = "A.pdf" -> "a.pdf"
      [] name = ".CSV" -> ".csv"
      [] name = ".ZIP" -> ".zip"
      [] OTHER -> name
Strip(name) == IF name = " " THEN "" ELSE name

\* an uploaded file: its name, the name's suffix as written, the chunks it
\* splits into, and for a CSV its header and rows, for a ZIP the names it holds
UploadedFile(name, suffix, chunks) ==
    [name |-> name, suffix |-> suffix, chunks |-> chunks,
     has_column |-> FALSE, rows |-> <<>>, names |-> {}]
CsvFile(name, has_column, rows) ==
    [UploadedFile(name, ".csv", 0) EXCEPT !.has_column = has_column, !.rows = rows]
ZipFile(name, names) == [UploadedFile(name, ".zip", 0) EXCEPT !.names = names]
Row(resume_filename, candidate_id) ==
    [resume_filename |-> resume_filename, candidate_id |-> candidate_id]

IntentClassification(intent, confidence, reasoning) ==
    [intent |-> intent, confidence |-> confidence, reasoning |-> reasoning]
NoIntent == IntentClassification(None, 0, "")

evaluate_keywords ==
    { <<"e", "v", "a", "l", "u", "a", "t", "e">>,   \* "evaluate"
      <<"s", "c", "r", "e", "e", "n">>,   \* "screen"
      <<"a", "s", "s", "e", "s", "s">>,   \* "assess"
      <<"c", "a", "n", "d", "i", "d", "a", "t", "e">>,   \* "candidate"
      <<"r", "e", "s", "u", "m", "e">>,   \* "resume"
      <<"h", "i", "r", "i", "n", "g">>,   \* "hiring"
      <<"r", "e", "c", "r", "u", "i", "t">> }   \* "recruit"
ingest_keywords ==
    { <<"i", "n", "g", "e", "s", "t">>,   \* "ingest"
      <<"a", "d", "d", " ", "t", "o", " ", "d", "a", "t", "a", "b", "a", "s", "e">>,   \* "add to database"
      <<"a", "d", "d", " ", "t", "o", " ", "k", "n", "o", "w", "l", "e", "d", "g", "e">>,   \* "add to knowledge"
      <<"s", "t", "o", "r", "e", " ", "p", "e", "r", "m", "a", "n", "e", "n", "t", "l", "y">>,   \* "store permanently"
      <<"u", "p", "l", "o", "a", "d", " ", "t", "o", " ", "s", "y", "s", "t", "e", "m">>,   \* "upload to system"
      <<"a", "d", "d", " ", "t", "h", "i", "s", " ", "d", "o", "c", "u", "m", "e", "n", "t">>,   \* "add this document"
      <<"s", "a", "v", "e", " ", "t", "o", " ", "d", "a", "t", "a", "b", "a", "s", "e">> }   \* "save to database"
chat_keywords ==
    { <<"w", "h", "a", "t">>,   \* "what"
      <<"h", "o", "w">>,   \* "how"
      <<"w", "h", "y">>,   \* "why"
      <<"e", "x", "p", "l", "a", "i", "n">>,   \* "explain"
      <<"t", "e", "l", "l", " ", "m", "e">>,   \* "tell me"
      <<"s", "u", "m", "m", "a", "r", "i", "z", "e">>,   \* "summarize"
      <<"?">> }   \* "?"

\* (variant: the file names compared as written)
HasSuffix_CaseSensitive(files, suffix) == \E i \in 1..Len(files) : files[i].suffix = suffix
\* any(f.lower().endswith(suffix) for f in file_names)
HasSuffix(files, suffix) == \E i \in 1..Len(files) : Lower(files[i].suffix) = suffix

\* (variant: the ingest rule tried before the evaluate rule)
detect_intent_heuristic_IngestFirst(message, files) ==
    IF \E kw \in ingest_keywords : Contains(message, kw)
    THEN IntentClassification("ingest", 90, "Explicit ingest keywords detected")
    ELSE IF /\ HasSuffix(files, ".csv") /\ HasSuffix(files, ".zip")
            /\ \E kw \in evaluate_keywords : Contains(message, kw)
    THEN IntentClassification("evaluate", 95, "CSV + ZIP files with evaluation keywords detected")
    ELSE IF Len(files) <= 1 /\ \E kw \in chat_keywords : Contains(message, kw)
    THEN IntentClassification("chat", 85, "Question/chat pattern detected")
    ELSE NoIntent

\* NoIntent stands for the None that lets the caller fall back to the model
detect_intent_heuristic(message, files) ==
    IF /\ HasSuffix(files, ".csv") /\ HasSuffix(files, ".zip")
       /\ \E kw \in evaluate_keywords : Contains(message, kw)
    THEN IntentClassification("evaluate", 95, "CSV + ZIP files with evaluation keywords detected")
    ELSE IF \E kw \in ingest_keywords : Contains(message, kw)
    THEN IntentClassification("ingest", 90, "Explicit ingest keywords detected")
    ELSE IF Len(files) <= 1 /\ \E kw \in chat_keywords : Contains(message, kw)
    THEN IntentClassification("chat", 85, "Question/chat pattern detected")
    ELSE NoIntent

\* what the classifying model call produces: ainvoke raises, or it returns
\* text that is or is not JSON, a JSON value that is or is not an object, and
\* an object whose "intent" and "confidence" may be present or not, the
\* confidence being something float() accepts or not
Reply(raised, json, object, has_intent, intent, has_confidence, numeric, confidence) ==
    [raised |-> raised, json |-> json, object |-> object,
     has_intent |-> has_intent, intent |-> intent,
     has_confidence |-> has_confidence, numeric |-> numeric, confidence |-> confidence]
ReplyError == Reply(TRUE, FALSE, FALSE, FALSE, None, FALSE, FALSE, 0)
ReplyNotJson == Reply(FALSE, FALSE, FALSE, FALSE, None, FALSE, FALSE, 0)
ReplyNotObject == Reply(FALSE, TRUE, FALSE, FALSE, None, FALSE, FALSE, 0)
ReplyBadConfidence(intent) == Reply(FALSE, TRUE, TRUE, TRUE, intent, TRUE, FALSE, 0)
ReplyJson(has_intent, intent, has_confidence, confidence) ==
    Reply(FALSE, TRUE, TRUE, has_intent, intent, has_confidence, TRUE, confidence)
\* no model call was made
NoReply == Reply(FALSE, FALSE, FALSE, FALSE, "-", FALSE, FALSE, 0)

\* the try block of classify_intent raises: ainvoke, json.loads, data.get on
\* a value that is no dict, or float() on the confidence
Fails(reply) ==
    \/ reply.raised \/ ~reply.json \/ ~reply.object
    \/ reply.has_confidence /\ ~reply.numeric

classify_intent(reply) ==
    IF Fails(reply)
    THEN IntentClassification("chat", 50, "Classification failed, defaulting to chat")
    ELSE IntentClassification(IF reply.has_intent THEN reply.intent ELSE "chat",
                              IF reply.has_confidence THEN reply.confidence ELSE 80,
                              "")

Decided(heuristic_result) == heuristic_result # NoIntent /\ heuristic_result.confidence >= 85

route_intent(message, files, reply) ==
    LET heuristic_result == detect_intent_heuristic(message, files)
    IN  IF Decided(heuristic_result) THEN heuristic_result ELSE classify_intent(reply)

(* ------------------------------------------------------------------ *)
(* /agent: agent_endpoint and its event_generator. agent.pc:            *)
(*   idle; classify (awaiting route_intent); response (StreamingResponse*)
(*   returned, generator not started); y_intent (suspended at the       *)
(*   intent frame); chat, ingest, evaluate (forwarding a workflow);     *)
(*   finished (generator ran to its end); closed (closed or cancelled   *)
(*   by its consumer); dropped (never started); failed (HTTP 500).      *)
(* temp_dir is none, exists or deleted. Of route_intent the record      *)
(* keeps the heuristic's result, the number of model calls issued, the  *)
(* model's reply and whether it returned or raised (route).             *)
(* ------------------------------------------------------------------ *)
IdleAgent ==
    [pc |-> "idle", temp_dir |-> "none", thread_id |-> None, message |-> NoMessage,
     files |-> <<>>, intent |-> NoIntent,
     heuristic |-> NoIntent, model_calls |-> 0, reply |-> NoReply, route |-> ""]

IdleJob ==
    [kind |-> "none", pc |-> "idle", out |-> <<>>, idx |-> 0, all_splits |-> <<>>,
     cur |-> 0, criteria |-> FALSE, rows |-> <<>>, resume_lookup |-> {}, results |-> <<>>,
     calls |-> <<>>]

BatchSize == 20

Over(a) == a.pc \in {"idle", "finished", "closed", "dropped", "failed"}

IntentFrame(intent) ==
    Frame("intent", <<intent.intent, ToString(intent.confidence), intent.reasoning>>)

\* the frames the response stream has carried so far
AgentOut ==
    IF agent.pc \in {"idle", "classify", "response", "dropped", "failed"} THEN <<>>
    ELSE <<IntentFrame(agent.intent)>> \o
         (IF agent.intent.intent = "chat" THEN chat["r1"].out
          ELSE IF agent.intent.intent \in {"ingest", "evaluate"} THEN job.out
          ELSE <<>>)

\* rmtree(temp_dir, ignore_errors=True)
rmtree(a) == [a EXCEPT !.temp_dir = "deleted"]

\* POST /agent: mkdtemp, then the uploads are saved; a failure while saving is
\* caught at line 323: the directory is removed and HTTP 500 is raised
AgentRequest(thread_id, message, files, saved) ==
    LET a == [IdleAgent EXCEPT !.thread_id = ThreadIdOf("r1", thread_id),
                               !.temp_dir = "exists",
                               !.message = message, !.files = files]
    IN  /\ Over(agent)
        /\ Len(dbeb) <= MaxGlobal
        /\ agent' = IF saved THEN [a EXCEPT !.pc = "classify"]
                    ELSE [rmtree(a) EXCEPT !.pc = "failed"]
        /\ job' = IdleJob
        /\ chat' = [chat EXCEPT !["r1"] = IdleChat]
        /\ client' = [client EXCEPT !["r1"] = "connected"]
        /\ session_context' = FreshContext("r1")
        /\ seen' = [seen EXCEPT !["r1"] = <<>>]
        /\ UNCHANGED <<storeVars, tool, opsVars, prev_turn>>

\* route_intent returns; the StreamingResponse is built around event_generator()
Classify(reply) ==
    /\ agent.pc = "classify"
    /\ agent' = [agent EXCEPT !.intent = route_intent(agent.message, agent.files, reply),
                              !.heuristic = detect_intent_heuristic(agent.message, agent.files),
                              !.model_calls =
                                  IF Decided(detect_intent_heuristic(agent.message, agent.files))
                                  THEN 0 ELSE 1,
                              !.reply =
                                  IF Decided(detect_intent_heuristic(agent.message, agent.files))
                                  THEN NoReply ELSE reply,
                              !.route = "returned",
                              !.pc = "response"]
    /\ UNCHANGED <<storeVars, tool, opsVars, chatVars, job>>

\* the model client cannot be constructed (classify_intent, line 59, outside
\* its try): the exception reaches line 323
ClassifyRaise ==
    /\ agent.pc = "classify"
    /\ ~Decided(detect_intent_heuristic(agent.message, agent.files))
    /\ agent' = [rmtree(agent) EXCEPT
                    !.heuristic = detect_intent_heuristic(agent.message, agent.files),
                    !.route = "raised", !.pc = "failed"]
    /\ UNCHANGED <<storeVars, tool, opsVars, chatVars, job>>

\* the server starts iterating the body: the intent frame is yielded (line 286)
StartStream ==
    /\ agent.pc = "response"
    /\ agent' = [agent EXCEPT !.pc = "y_intent"]
    /\ UNCHANGED <<storeVars, tool, opsVars, chatVars, job>>

\* the body is never iterated (the client is gone before the response starts):
\* a generator that was not started runs none of its body when it is discarded
Abandon ==
    /\ agent.pc = "response"
    /\ agent' = [agent EXCEPT !.pc = "dropped"]
    /\ UNCHANGED <<storeVars, tool, opsVars, chatVars, job>>

\* a workflow generator yields one frame and suspends; pc is where it resumes
JobYield(j, event, data, next) == [j EXCEPT !.out = Append(@, Frame(event, data)), !.pc = next]

\* except Exception in _handle_ingest / _handle_evaluate: the error frame, then the end
\* (variant: the loop goes on with the next batch after the error frame)
JobError_Continue(j, e) ==
    JobYield([j EXCEPT !.cur = @ + BatchSize], "error", e, IF j.pc = "batches" THEN "batches" ELSE "end")
JobError(j, e) == JobYield(j, "error", e, "end")

\* the generator resumes after the intent frame and enters the try block:
\* intent chat; the first upload, when readable, becomes the context
DispatchChat(context) ==
    /\ agent.pc = "y_intent" /\ agent.intent.intent = "chat"
    /\ context # None => agent.files # <<>>
    /\ agent' = [agent EXCEPT !.pc = "chat"]
    /\ chat' = [chat EXCEPT !["r1"] =
                  Created("r1", "agent", agent.thread_id, agent.message.text, context)]
    /\ UNCHANGED <<storeVars, tool, opsVars, session_context, client, seen, prev_turn, job>>

\* intent ingest or evaluate: the workflow starts and yields its status frame
DispatchJob ==
    LET kind == agent.intent.intent
    IN  /\ agent.pc = "y_intent" /\ kind \in {"ingest", "evaluate"}
        /\ agent' = [agent EXCEPT !.pc = kind]
        /\ job' = JobYield([IdleJob EXCEPT !.kind = kind, !.idx = 1],
                           "status", <<kind, "starting">>,
                           IF kind = "ingest" THEN "files" ELSE "begin")
        /\ UNCHANGED <<storeVars, tool, opsVars, chatVars>>

\* any other intent matches no branch of lines 289-307: the try block is left
\* at once, the finally clause removes the directory and the generator ends
DispatchNone ==
    /\ agent.pc = "y_intent" /\ agent.intent.intent \notin {"chat", "ingest", "evaluate"}
    /\ agent' = [rmtree(agent) EXCEPT !.pc = "finished"]
    /\ UNCHANGED <<storeVars, tool, opsVars, chatVars, job>>

\* the consumer closes the generator while it is suspended at a yield:
\* GeneratorExit is raised there. Line 286 is outside the try block, so the
\* finally clause runs only when the generator is past the intent frame.
CloseStream ==
    /\ \/ agent.pc \in {"y_intent", "ingest", "evaluate"}
       \/ agent.pc = "chat" /\ chat["r1"].pc \in {"y_token", "y_done", "y_error"}
    /\ agent' = [(IF agent.pc = "y_intent" THEN agent ELSE rmtree(agent)) EXCEPT !.pc = "closed"]
    /\ UNCHANGED <<storeVars, tool, opsVars, chatVars, job>>

\* the consuming task is cancelled while the generator awaits inside the chat
\* workflow: CancelledError passes the except clauses and runs both finally clauses
CancelStream ==
    LET h == chat["r1"]
    IN  /\ agent.pc = "chat" /\ h.pc \in {"created", "await_event", "poll"}
        /\ agent' = [rmtree(agent) EXCEPT !.pc = "closed"]
        /\ IF h.pc = "created"
           THEN UNCHANGED <<chat, session_context>>
           ELSE /\ chat' = [chat EXCEPT !["r1"] = [h EXCEPT !.pc = "finished", !.exit = "cancelled"]]
                /\ session_context' = ContextReset(session_context, TaskContext("r1"), h.token)
        /\ UNCHANGED <<storeVars, tool, opsVars, client, seen, prev_turn, job>>

\* _handle_chat is exhausted (its finally has reset the context variable):
\* event_generator leaves the try block, removes the directory and ends
ChatEnd ==
    /\ agent.pc = "chat"
    /\ FinallyStep("r1")
    /\ agent' = [rmtree(agent) EXCEPT !.pc = "finished"]
    /\ UNCHANGED job

\* the ingest or evaluate generator returns after its terminal frame
JobEnd ==
    /\ agent.pc \in {"ingest", "evaluate"} /\ job.pc = "end"
    /\ agent' = [rmtree(agent) EXCEPT !.pc = "finished"]
    /\ job' = [job EXCEPT !.pc = "returned"]
    /\ UNCHANGED <<storeVars, tool, opsVars, chatVars>>

\* yield b"event: done\ndata: [DONE]\n\n"
JobDone ==
    /\ agent.pc \in {"ingest", "evaluate"} /\ job.pc = "done"
    /\ job' = JobYield(job, "done", DONE, "end")
    /\ UNCHANGED <<storeVars, tool, opsVars, chatVars, agent>>

(* _handle_ingest *)
Loadable(file) == Lower(file.suffix) \in {".pdf", ".txt", ".md"}
NextLoadable(files, idx) ==
    LET S == {i \in idx..Len(files) : Loadable(files[i])}
    IN  IF S = {} THEN 0 ELSE CHOOSE i \in S : \A k \in S : i <= k
SplitDocuments(file) ==
    [k \in 1..file.chunks |-> [page_content |-> k, source |-> file.name]]

\* the next PDF or text upload is loaded and split; one progress frame
IngestFile(loaded) ==
    LET i == NextLoadable(agent.files, job.idx)
        splits == SplitDocuments(agent.files[i])
    IN  /\ agent.pc = "ingest" /\ job.pc = "files" /\ i # 0
        /\ job' = IF loaded
                  THEN JobYield([job EXCEPT !.all_splits = @ \o splits, !.idx = i + 1],
                                "progress", <<agent.files[i].name, ToString(Len(splits))>>, "files")
                  ELSE JobError(job, <<"load failed">>)
        /\ UNCHANGED <<storeVars, tool, opsVars, chatVars, agent>>

\* if not all_splits
\* (variant: the check is left out)
NothingToIngest_Unchecked(all_splits) == FALSE
NothingToIngest(all_splits) == all_splits = <<>>

\* after the last upload: nothing to ingest, or the ingesting status frame
IngestFilesDone ==
    /\ agent.pc = "ingest" /\ job.pc = "files" /\ NextLoadable(agent.files, job.idx) = 0
    /\ job' = IF NothingToIngest(job.all_splits)
              THEN JobError(job, <<"No documents to ingest">>)
              ELSE JobYield([job EXCEPT !.cur = 0], "status",
                            <<"ingesting", ToString(Len(job.all_splits))>>, "batches")
    /\ UNCHANGED <<storeVars, tool, opsVars, chatVars, agent>>

\* one batch of at most batch_size chunks is added to the global collection
IngestBatch(added) ==
    LET total_chunks == Len(job.all_splits)
        current == Min(job.cur + BatchSize, total_chunks)
        batch == SubSeq(job.all_splits, job.cur + 1, current)
    IN  /\ agent.pc = "ingest" /\ job.pc = "batches" /\ job.cur < total_chunks
        /\ IF added
           THEN /\ dbeb' = add_documents(dbeb, batch)
                /\ job' = JobYield([job EXCEPT !.cur = @ + BatchSize], "progress",
                                   <<ToString(current), ToString(total_chunks)>>, "batches")
           ELSE /\ job' = JobError(job, <<"add_documents failed:", NL, "store unreachable">>)
                /\ UNCHANGED dbeb
        /\ UNCHANGED <<dbeb_sessions, tool, opsVars, chatVars, agent>>

\* all batches added: the completion message as a token frame
IngestSummary ==
    /\ agent.pc = "ingest" /\ job.pc = "batches" /\ job.cur >= Len(job.all_splits)
    /\ job' = JobYield(job, "token",
                       <<"Successfully ingested", ToString(Len(agent.files)),
                         ToString(Len(job.all_splits))>>, "done")
    /\ UNCHANGED <<storeVars, tool, opsVars, chatVars, agent>>

(* _handle_evaluate *)
HasCriteria(files) == \E i \in 1..Len(files) : Loadable(files[i])
LastWith(files, suffix) ==
    files[CHOOSE i \in 1..Len(files) :
            /\ Lower(files[i].suffix) = suffix
            /\ \A k \in (i + 1)..Len(files) : Lower(files[k].suffix) # suffix]
Missing(files) ==
    (IF HasCriteria(files) THEN <<>> ELSE <<"criteria document (PDF/TXT)">>) \o
    (IF HasSuffix(files, ".csv") THEN <<>> ELSE <<"candidates CSV">>) \o
    (IF HasSuffix(files, ".zip") THEN <<>> ELSE <<"resumes ZIP archive">>)

\* candidate_id or the positional default "Candidate {idx+1}" (idx is 1-based here)
CandidateId(row, idx) ==
    IF row.candidate_id # "" THEN <<row.candidate_id>> ELSE <<"Candidate", ToString(idx)>>
ErrorResult(candidate_id, error) ==
    [candidate_id |-> candidate_id, has_evaluation |-> FALSE,
     meets_requirements |-> FALSE, error |-> error]
EvaluationResult(candidate_id, meets) ==
    [candidate_id |-> candidate_id, has_evaluation |-> TRUE,
     meets_requirements |-> meets, error |-> ""]
\* "resume_filename" in reader.fieldnames
\* (variant: the header is not looked at)
HasResumeColumn_Unchecked(csv) == TRUE
HasResumeColumn(csv) == csv.has_column

\* what happens to a row whose resume was found: its text cannot be extracted,
\* evaluate_candidate raises after calling the model, or it returns a verdict
RowOutcomes == {"unreadable", "raise", "meets", "fails"}
\* the entry one row appends to results
RowResult(row, candidate_id, resume_lookup, outcome) ==
    LET resume_name == Strip(row.resume_filename)
    IN  IF resume_name = "" THEN ErrorResult(candidate_id, "Missing resume_filename")
        ELSE IF Lower(resume_name) \notin resume_lookup
        THEN ErrorResult(candidate_id, "Resume not found")
        ELSE IF outcome = "unreadable" THEN ErrorResult(candidate_id, "extraction failed")
        ELSE IF outcome = "raise" THEN ErrorResult(candidate_id, "model failed")
        ELSE EvaluationResult(candidate_id, outcome = "meets")
\* whether evaluate_candidate, and with it the model, is called for the row
\* (variant: it is called for every row)
Evaluated_EveryRow(row, resume_lookup, outcome) == TRUE
Evaluated(row, resume_lookup, outcome) ==
    /\ Strip(row.resume_filename) # ""
    /\ Lower(Strip(row.resume_filename)) \in resume_lookup
    /\ outcome # "unreadable"
Passed(results) == Cardinality({i \in 1..Len(results) : results[i].meets_requirements})

\* the files are sorted out, the archive is unpacked and the CSV is read
EvaluateBegin(readable) ==
    LET files == agent.files
        csv == LastWith(files, ".csv")
        zip == LastWith(files, ".zip")
    IN  /\ agent.pc = "evaluate" /\ job.pc = "begin"
        /\ job' =
             IF Missing(files) # <<>>
             THEN JobYield(job, "token", <<"Missing required files">> \o Missing(files), "done")
             ELSE IF ~readable THEN JobError(job, <<"read failed">>)
             ELSE IF ~HasResumeColumn(csv)
             THEN JobYield(job, "token", <<"CSV must include a 'resume_filename' column">>, "done")
             ELSE IF csv.rows = <<>>
             THEN JobYield(job, "token", <<"No candidate rows found in CSV">>, "done")
             ELSE JobYield([job EXCEPT !.criteria = TRUE, !.rows = csv.rows, !.idx = 1,
                                       !.resume_lookup = {Lower(n) : n \in zip.names}],
                           "token", <<"Evaluating", ToString(Len(csv.rows))>>, "rows")
        /\ UNCHANGED <<storeVars, tool, opsVars, chatVars, agent>>

\* the loop over the rows, run until its next yield: rows without a usable
\* resume and rows whose evaluation raises add an error entry and yield nothing;
\* an evaluated row adds its evaluation and yields a token frame; after the
\* last row the summary token is yielded
RECURSIVE RunRows(_, _)
RunRows(j, oc) ==
    IF j.idx > Len(j.rows)
    THEN JobYield(j, "token",
                  <<NL, NL, "---", NL, "**Summary:** ", ToString(Passed(j.results)), "/",
                    ToString(Len(j.results)), " candidates meet requirements.">>, "results")
    ELSE LET row == j.rows[j.idx]
             candidate_id == CandidateId(row, j.idx)
             result == RowResult(row, candidate_id, j.resume_lookup, oc[j.idx])
             after == [j EXCEPT !.results = Append(@, result), !.idx = @ + 1,
                                !.calls = IF Evaluated(row, j.resume_lookup, oc[j.idx])
                                          THEN Append(@, j.idx) ELSE @]
         IN  IF result.has_evaluation
             THEN JobYield(after, "token", <<oc[j.idx]>> \o candidate_id, "rows")
             ELSE RunRows(after, oc)

EvaluateRows(oc) ==
    /\ agent.pc = "evaluate" /\ job.pc = "rows"
    /\ job' = RunRows(job, oc)
    /\ UNCHANGED <<storeVars, tool, opsVars, chatVars, agent>>

\* the results frame carries every entry, in row order
EvaluateResults ==
    /\ agent.pc = "evaluate" /\ job.pc = "results"
    /\ job' = JobYield(job, "results", job.results, "done")
    /\ UNCHANGED <<storeVars, tool, opsVars, chatVars, agent>>

(* ------------------------------------------------------------------ *)
(* The vector store's collections and the startup handler               *)
(* (vector_store.py, main.py).                                          *)
(* ------------------------------------------------------------------ *)
Store(collections, indexed) == [collections |-> collections, indexed |-> indexed]
\* both collections and the keyword index on metadata.session_id exist
Provisioned == Store({"dbeb", "dbeb_sessions"}, TRUE)
\* startup.pc: idle, started (startup_event completed), crashed (an exception
\* left it). Of the runs of ensure_collections_exist the record keeps their
\* number, the create_collection calls issued (with whether the collection
\* existed then), whether the latest run caught an exception, and the store
\* as the latest run found it.
IdleStartup ==
    [pc |-> "idle", creates |-> <<>>, raised |-> FALSE, runs |-> 0, before |-> Provisioned]

\* the exceptions of the store client: the store answers with an error, or
\* cannot be reached
StoreErrors == {"UnexpectedResponse", "ResponseHandlingException"}
NoFault == [call |-> "none", error |-> "none"]
Faults ==
    {NoFault} \cup
    {[call |-> c, error |-> e] :
        c \in {"get_collections", "create dbeb", "create dbeb_sessions", "create_payload_index"},
        e \in StoreErrors}
\* except Exception (line 55)
\* (variant: only the store's error answers are caught)
Caught_ResponseOnly(e) == e = "UnexpectedResponse"
Caught(e) == e \in StoreErrors
\* "dbeb" not in collection_names
\* (variant: the collection is created without looking)
Absent_Unchecked(collection_names, name) == TRUE
Absent(collection_names, name) == name \notin collection_names

\* ensure_collections_exist run up to the call that raises, if one does: the
\* store it leaves, the create calls it issued, the exception it raised.
\* create_collection of an existing collection is refused by the store.
Provision(store, fault) ==
    LET collection_names == store.collections
        create(st, name) ==
            IF st.error # "none" \/ ~Absent(collection_names, name) THEN st
            ELSE LET call == [name |-> name, existed |-> name \in st.store.collections]
                     issued == [st EXCEPT !.creates = Append(@, call)]
                 IN  IF fault.call = "create " \o name THEN [issued EXCEPT !.error = fault.error]
                     ELSE IF call.existed THEN [issued EXCEPT !.error = "UnexpectedResponse"]
                     ELSE [issued EXCEPT !.store.collections = @ \cup {name}]
        index(st) ==
            IF st.error # "none" THEN st
            ELSE IF fault.call = "create_payload_index" THEN [st EXCEPT !.error = fault.error]
            ELSE IF "dbeb_sessions" \notin st.store.collections
            THEN [st EXCEPT !.error = "UnexpectedResponse"]
            ELSE [st EXCEPT !.store.indexed = TRUE]
        listed == [store |-> store, creates |-> <<>>,
                   error |-> IF fault.call = "get_collections" THEN fault.error ELSE "none"]
    IN  index(create(create(listed, "dbeb"), "dbeb_sessions"))

\* startup_event: ensure_collections_exist, whose except clause prints the
\* exception; one that it does not catch leaves the startup handler
ensure_collections_exist(fault) ==
    LET run == Provision(qdrant, fault)
    IN  /\ startup.pc \in {"idle", "started"} /\ startup.runs < MaxRuns
        /\ qdrant' = run.store
        /\ startup' = [pc |-> IF run.error = "none" \/ Caught(run.error)
                              THEN "started" ELSE "crashed",
                       creates |-> startup.creates \o run.creates,
                       raised |-> run.error # "none",
                       runs |-> startup.runs + 1,
                       before |-> qdrant]
        /\ UNCHANGED <<storeVars, tool, chatVars, agentVars, upload, evaluation, session_upload, candidate, server>>

(* ------------------------------------------------------------------ *)
(* /upload-session, /upload and /evaluate-candidates (endpoints.py)     *)
(* ------------------------------------------------------------------ *)
\* POST /upload-session, from the request to its answer: a file that is not a
\* PDF is answered 400 before the temporary file is opened; saving, loading or
\* adding may raise (fault), which is answered 500; the finally clause removes
\* the temporary file on every path that opened it.
IdleSessionUpload == [status |-> 0, temp_file |-> "none"]
SessionUploadFaults == {"none", "save", "load", "add"}
upload_session_file(file, thread_id, fault) ==
    /\ Len(dbeb_sessions) + file.chunks <= MaxStore
    /\ IF Lower(file.suffix) # ".pdf"
       THEN /\ session_upload' = [status |-> 400, temp_file |-> "none"]
            /\ UNCHANGED dbeb_sessions
       ELSE IF fault # "none"
       THEN /\ session_upload' = [status |-> 500, temp_file |-> "deleted"]
            /\ UNCHANGED dbeb_sessions
       ELSE /\ session_upload' = [status |-> 200, temp_file |-> "deleted"]
            /\ dbeb_sessions' = add_session_documents(dbeb_sessions, Splits(file.chunks), thread_id)
    /\ UNCHANGED <<dbeb, tool, upload, evaluation, candidate, server, qdrant, startup, chatVars, agentVars>>

\* /upload-session with a PDF of n chunks that is saved, loaded and added
UploadSession(thread_id, n) ==
    upload_session_file(UploadedFile("session.pdf", ".pdf", n), thread_id, "none")

\* upload.pc: idle; answered (an HTTP error status was raised); response
\* (StreamingResponse returned, process_stream not started); batches, done,
\* end (process_stream suspended at a yield); finished.
IdleUpload ==
    [pc |-> "idle", status |-> 0, temp_file |-> "none", loaded |-> FALSE,
     file |-> UploadedFile("", "", 0), x_admin_key |-> "", splits |-> <<>>, cur |-> 0,
     out |-> <<>>]

\* settings.ADMIN_KEY, by default
ADMIN_KEY == "secret-default"
\* the comparison of line 139
\* (variant: every key is accepted)
ValidAdminKey_Any(x_admin_key) == TRUE
ValidAdminKey(x_admin_key) == x_admin_key = ADMIN_KEY

\* POST /upload: the key, the file name, then the upload is saved and the
\* streaming response returned
upload_admin_file(file, x_admin_key, saved) ==
    LET u == [IdleUpload EXCEPT !.file = file, !.x_admin_key = x_admin_key, !.pc = "answered"]
    IN  /\ upload.pc \in {"idle", "answered", "finished", "dropped", "closed"}
        /\ Len(dbeb) <= MaxGlobal
        /\ upload' =
             IF ~ValidAdminKey(x_admin_key) THEN [u EXCEPT !.status = 401]
             ELSE IF Lower(file.suffix) # ".pdf" THEN [u EXCEPT !.status = 400]
             ELSE IF ~saved THEN [u EXCEPT !.status = 500, !.temp_file = "exists"]
             ELSE [u EXCEPT !.status = 200, !.temp_file = "exists", !.pc = "response"]
        /\ UNCHANGED <<storeVars, tool, chatVars, agentVars, evaluation, session_upload, candidate, server, qdrant, startup>>

UploadYield(u, event, data, next) == [u EXCEPT !.out = Append(@, Frame(event, data)), !.pc = next]

\* process_stream starts: the PDF is loaded and split, the init frame yielded;
\* a failure is reported in an error frame
UploadLoad(loaded) ==
    LET splits == SplitDocuments(upload.file)
    IN  /\ upload.pc = "response"
        /\ upload' = IF loaded
                     THEN UploadYield([upload EXCEPT !.loaded = TRUE, !.splits = splits, !.cur = 0],
                                      "init", <<ToString(Len(splits))>>, "batches")
                     ELSE UploadYield(upload, "error", <<"load failed">>, "end")
        /\ UNCHANGED <<storeVars, tool, chatVars, agentVars, evaluation, session_upload, candidate, server, qdrant, startup>>

\* current = min(i + batch_size, total_chunks)
\* (variant: the end of the batch is not clamped to the number of chunks)
Current_Unclamped(i, total_chunks) == i + BatchSize
Current(i, total_chunks) == Min(i + BatchSize, total_chunks)

\* one batch of at most batch_size chunks is added to the global collection
UploadBatch(added) ==
    LET total_chunks == Len(upload.splits)
        current == Current(upload.cur, total_chunks)
        batch == SubSeq(upload.splits, upload.cur + 1, Min(upload.cur + BatchSize, total_chunks))
    IN  /\ upload.pc = "batches" /\ upload.cur < total_chunks
        /\ IF added
           THEN /\ dbeb' = add_documents(dbeb, batch)
                /\ upload' = UploadYield([upload EXCEPT !.cur = @ + BatchSize], "progress",
                                         <<ToString(current), ToString(total_chunks)>>, "batches")
           ELSE /\ upload' = UploadYield(upload, "error", <<"add_documents failed">>, "end")
                /\ UNCHANGED dbeb
        /\ UNCHANGED <<dbeb_sessions, tool, chatVars, agentVars, evaluation, session_upload, candidate, server, qdrant, startup>>

\* every batch was added: the done frame
UploadDone ==
    /\ upload.pc = "batches" /\ upload.cur >= Len(upload.splits)
    /\ upload' = UploadYield(upload, "done", <<"Successfully processed", upload.file.name>>, "end")
    /\ UNCHANGED <<storeVars, tool, chatVars, agentVars, evaluation, session_upload, candidate, server, qdrant, startup>>

\* the generator is resumed after its last frame: the finally clause removes
\* the temporary file
UploadEnd ==
    /\ upload.pc = "end"
    /\ upload' = [upload EXCEPT !.temp_file = "deleted", !.pc = "finished"]
    /\ UNCHANGED <<storeVars, tool, chatVars, agentVars, evaluation, session_upload, candidate, server, qdrant, startup>>

\* the response body is never iterated (the client is gone before the stream
\* starts): a generator that was not started runs none of its body, its
\* finally clause included, when it is discarded
UploadAbandon ==
    /\ upload.pc = "response"
    /\ upload' = [upload EXCEPT !.pc = "dropped"]
    /\ UNCHANGED <<storeVars, tool, chatVars, agentVars, evaluation, session_upload, candidate, server, qdrant, startup>>

\* the client disconnects while process_stream is suspended at a yield: the
\* generator is closed there and its finally clause removes the temporary file
UploadClose ==
    /\ upload.pc \in {"batches", "end"}
    /\ upload' = [upload EXCEPT !.temp_file = "deleted", !.pc = "closed"]
    /\ UNCHANGED <<storeVars, tool, chatVars, agentVars, evaluation, session_upload, candidate, server, qdrant, startup>>

IdleEvaluation ==
    [pc |-> "idle", status |-> 0, temp_dir |-> "none", files |-> <<>>, idx |-> 0,
     resume_lookup |-> {}, results |-> <<>>, calls |-> <<>>,
     response |-> [keys |-> {}, evaluated_candidates |-> <<>>]]

\* the JSON body of a 200 answer: its keys and the result entries
Response(keys, evaluated_candidates) ==
    [keys |-> keys, evaluated_candidates |-> evaluated_candidates]
NoResponse == Response({}, <<>>)
\* an exception leaves the handler: the finally clause removes the directory
HTTPException(e, status_code) == [rmtree(e) EXCEPT !.pc = "answered", !.status = status_code]

\* POST /evaluate-candidates: mkdtemp, then the three uploads are saved
evaluate_candidates(criteria, candidates_csv, resumes_zip, saved) ==
    LET e == [IdleEvaluation EXCEPT !.temp_dir = "exists", !.response = NoResponse,
                                    !.files = <<criteria, candidates_csv, resumes_zip>>]
    IN  /\ evaluation.pc \in {"idle", "answered"}
        /\ evaluation' = IF saved THEN [e EXCEPT !.pc = "validate"] ELSE HTTPException(e, 500)
        /\ UNCHANGED <<storeVars, tool, chatVars, agentVars, upload, session_upload, candidate, server, qdrant, startup>>

\* lines 239-263: the archive's suffix, its extraction, the criteria text, the
\* lookup, the CSV header and rows. fault is the step that raises, if any.
EvaluationFaults == {"none", "archive", "criteria", "csv"}
EvaluationValidate(fault) ==
    LET criteria == evaluation.files[1]
        csv == evaluation.files[2]
        zip == evaluation.files[3]
    IN  /\ evaluation.pc = "validate"
        /\ evaluation' =
             IF Lower(zip.suffix) # ".zip" THEN HTTPException(evaluation, 400)
             ELSE IF fault = "archive" THEN HTTPException(evaluation, 500)
             ELSE IF ~Loadable(criteria) THEN HTTPException(evaluation, 400)
             ELSE IF fault \in {"criteria", "csv"} THEN HTTPException(evaluation, 500)
             ELSE IF ~HasResumeColumn(csv) THEN HTTPException(evaluation, 400)
             ELSE IF csv.rows = <<>> THEN HTTPException(evaluation, 400)
             ELSE [evaluation EXCEPT !.pc = "rows", !.idx = 1,
                                     !.resume_lookup = {Lower(n) : n \in zip.names}]
        /\ UNCHANGED <<storeVars, tool, chatVars, agentVars, upload, session_upload, candidate, server, qdrant, startup>>

\* one iteration of the loop of lines 266-307; candidate_id has no default here
EvaluationRow(outcome) ==
    LET row == evaluation.files[2].rows[evaluation.idx]
        candidate_id == IF row.candidate_id # "" THEN <<row.candidate_id>> ELSE <<None>>
    IN  /\ evaluation.pc = "rows" /\ evaluation.idx <= Len(evaluation.files[2].rows)
        /\ evaluation' = [evaluation EXCEPT
              !.results = Append(@, RowResult(row, candidate_id, evaluation.resume_lookup, outcome)),
              !.calls = IF Evaluated(row, evaluation.resume_lookup, outcome)
                        THEN Append(@, evaluation.idx) ELSE @,
              !.idx = @ + 1]
        /\ UNCHANGED <<storeVars, tool, chatVars, agentVars, upload, session_upload, candidate, server, qdrant, startup>>

\* lines 309-316: the JSON answer, then the finally clause
EvaluationReturn ==
    /\ evaluation.pc = "rows" /\ evaluation.idx > Len(evaluation.files[2].rows)
    /\ evaluation' = [rmtree(evaluation) EXCEPT
          !.pc = "answered", !.status = 200,
          !.response = Response({"status", "criteria_summary_chars", "evaluated_candidates"},
                                evaluation.results)]
    /\ UNCHANGED <<storeVars, tool, chatVars, agentVars, upload, session_upload, candidate, server, qdrant, startup>>

(* ------------------------------------------------------------------ *)
(* evaluate_candidate (services/evaluator.py)                           *)
(* ------------------------------------------------------------------ *)
MAX_RESUME_CHARS == 6000
\* "\n...[truncated]"
TruncationMarker == <<NL, ".", ".", ".", "[", "t", "r", "u", "n", "c", "a", "t", "e", "d", "]">>
Whitespace == {" ", NL}

\* str.strip(): the text without its leading and trailing whitespace
StripText(text) ==
    LET n == Len(text)
    IN  IF \A i \in 1..n : text[i] \in Whitespace THEN <<>>
        ELSE LET first == CHOOSE i \in 1..n :
                              text[i] \notin Whitespace /\ \A k \in 1..(i - 1) : text[k] \in Whitespace
                 last == CHOOSE i \in 1..n :
                              text[i] \notin Whitespace /\ \A k \in (i + 1)..n : text[k] \in Whitespace
             IN  SubSeq(text, first, last)

\* _truncate
\* (variant: the text is returned whatever its length)
truncate_Unbounded(text, max_chars) == text
truncate(text, max_chars) ==
    IF Len(text) <= max_chars THEN text
    ELSE SubSeq(text, 1, max_chars) \o TruncationMarker

\* candidate.pc: idle; prompt (the prompt is built, the model call awaited);
\* returned or raised
IdleCandidate == [pc |-> "idle", resume_text |-> <<>>, trimmed_resume |-> <<>>, parsed |-> None]

\* evaluate_candidate up to the model call of line 62: the resume part of the prompt
evaluate_candidate(resume_text) ==
    /\ candidate.pc \in {"idle", "returned", "raised"}
    /\ candidate' = [pc |-> "prompt", resume_text |-> resume_text,
                     trimmed_resume |-> truncate(StripText(resume_text), MAX_RESUME_CHARS),
                     parsed |-> None]
    /\ UNCHANGED <<storeVars, tool, chatVars, agentVars, upload, evaluation, session_upload,
                   server, qdrant, startup>>

\* the model call raises, or its answer is parsed: meets_requirements is true,
\* false, or None when the answer is not JSON
ModelAnswers == {"raise", "meets", "fails", "not json"}
CandidateAnswer(answer) ==
    /\ candidate.pc = "prompt"
    /\ candidate' = IF answer = "raise" THEN [candidate EXCEPT !.pc = "raised"]
                    ELSE [candidate EXCEPT !.pc = "returned", !.parsed = answer]
    /\ UNCHANGED <<storeVars, tool, chatVars, agentVars, upload, evaluation, session_upload,
                   server, qdrant, startup>>

(* ------------------------------------------------------------------ *)
(* get_graph (server.py, server_old.py)                                 *)
(* ------------------------------------------------------------------ *)
\* the startup handler and two requests call get_graph
Callers == {"on_startup", "stream 1", "stream 2"}

\* _graph is None or the object a run of build_graph returned (objects are
\* named by the number of the run that made them); _graph_lock is free (None) or held by
\* a caller. A caller's pc: idle; acquire (waiting for the lock); check;
\* build (awaiting build_graph); release; return; returned; cancelled.
IdleServer ==
    [graph |-> None, lock |-> None, builds |-> 0,
     pc |-> [c \in Callers |-> "idle"],
     built |-> [c \in Callers |-> None],
     result |-> [c \in Callers |-> None]]

\* asyncio.Lock: acquire returns only when no task holds the lock
\* (variant: acquire returns at once, whoever holds the lock)
LockFree_Always(lock) == TRUE
LockFree(lock) == lock = None

\* a caller enters get_graph and reaches async with _graph_lock
get_graph(c) ==
    /\ server.pc[c] \in {"idle", "returned", "cancelled"}
    /\ server' = [server EXCEPT !.pc[c] = "acquire", !.result[c] = None, !.built[c] = None]
    /\ UNCHANGED <<storeVars, tool, chatVars, agentVars, upload, evaluation, session_upload,
                   candidate, qdrant, startup>>

\* the lock is acquired
Acquire(c) ==
    /\ server.pc[c] = "acquire" /\ LockFree(server.lock)
    /\ server' = [server EXCEPT !.lock = c, !.pc[c] = "check"]
    /\ UNCHANGED <<storeVars, tool, chatVars, agentVars, upload, evaluation, session_upload,
                   candidate, qdrant, startup>>

\* the caller's task is cancelled while it waits for the lock
CancelAcquire(c) ==
    /\ server.pc[c] = "acquire"
    /\ server' = [server EXCEPT !.pc[c] = "cancelled"]
    /\ UNCHANGED <<storeVars, tool, chatVars, agentVars, upload, evaluation, session_upload,
                   candidate, qdrant, startup>>

\* if _graph is None: build_graph is called and awaited
CheckGraph(c) ==
    /\ server.pc[c] = "check"
    /\ server' = IF server.graph = None
                 THEN [server EXCEPT !.builds = @ + 1, !.built[c] = ToString(server.builds + 1),
                                     !.pc[c] = "build"]
                 ELSE [server EXCEPT !.pc[c] = "release"]
    /\ UNCHANGED <<storeVars, tool, chatVars, agentVars, upload, evaluation, session_upload,
                   candidate, qdrant, startup>>

\* build_graph returns: _graph = the graph it built
BuildDone(c) ==
    /\ server.pc[c] = "build"
    /\ server' = [server EXCEPT !.graph = server.built[c], !.pc[c] = "release"]
    /\ UNCHANGED <<storeVars, tool, chatVars, agentVars, upload, evaluation, session_upload,
                   candidate, qdrant, startup>>

\* the async with block is left: the lock is released
Release(c) ==
    /\ server.pc[c] = "release"
    /\ server' = [server EXCEPT !.lock = None, !.pc[c] = "return"]
    /\ UNCHANGED <<storeVars, tool, chatVars, agentVars, upload, evaluation, session_upload,
                   candidate, qdrant, startup>>

\* return _graph
ReturnGraph(c) ==
    /\ server.pc[c] = "return"
    /\ server' = [server EXCEPT !.result[c] = server.graph, !.pc[c] = "returned"]
    /\ UNCHANGED <<storeVars, tool, chatVars, agentVars, upload, evaluation, session_upload,
                   candidate, qdrant, startup>>

(* ------------------------------------------------------------------ *)
(* Specifications                                                       *)
(* ------------------------------------------------------------------ *)
AllThreads == Threads \cup {Uuid[r] : r \in Req}

Init ==
    /\ session_context = [c \in Contexts |-> None]
    /\ dbeb_sessions = <<>>
    /\ dbeb = <<>>
    /\ client = [r \in Req |-> "connected"]
    /\ chat = [r \in Req |-> IdleChat]
    /\ seen = [r \in Req |-> <<>>]
    /\ prev_turn = [t \in AllThreads |-> <<>>]
    /\ agent = IdleAgent
    /\ job = IdleJob
    /\ tool = NoCall
    /\ upload = IdleUpload
    /\ evaluation = IdleEvaluation
    /\ session_upload = IdleSessionUpload
    /\ candidate = IdleCandidate
    /\ server = IdleServer
    /\ qdrant = Provisioned
    /\ startup = IdleStartup

\* The session tool as a function: any value of the context variable (unset,
\* empty, a thread id) in the calling Context, any content of the session
\* collection that uploads can have produced.
ContextValues == {None, Empty} \cup Threads
ToolContexts == {<<"graph", r>> : r \in Req}
InitTool ==
    /\ \E value \in [ToolContexts -> ContextValues] :
          session_context = [c \in Contexts |-> IF c \in ToolContexts THEN value[c] ELSE None]
    /\ dbeb_sessions = <<>>
    /\ dbeb = <<>>
    /\ client = [r \in Req |-> "connected"]
    /\ chat = [r \in Req |-> IdleChat]
    /\ seen = [r \in Req |-> <<>>]
    /\ prev_turn = [t \in AllThreads |-> <<>>]
    /\ agent = IdleAgent
    /\ job = IdleJob
    /\ tool = NoCall
    /\ upload = IdleUpload
    /\ evaluation = IdleEvaluation
    /\ session_upload = IdleSessionUpload
    /\ candidate = IdleCandidate
    /\ server = IdleServer
    /\ qdrant = Provisioned
    /\ startup = IdleStartup
NextTool ==
    \/ \E c \in ToolContexts : SessionToolCall(c)
    \/ \E t \in Threads, n \in 1..MaxSplits : UploadSession(t, n)
SpecTool == InitTool /\ [][NextTool]_vars

SessionOnly == <<"search_session_knowledge">>

\* Concurrent chat requests on /agent and /stream with any thread ids, and
\* session uploads, interleaved at every await and yield. The model asks for
\* the session search at most once per turn (token frames: SpecStream).
NextChat ==
    \/ \E r \in Req, ep \in Endpoints, t \in Threads \cup {None} :
            NewRequest(r, ep, t, "q1", None)
    \/ \E r \in Req : HandlerStart(r)
    \/ \E r \in Req : AgentReturn(r, <<>>)
    \/ \E r \in Req : chat[r].agent_runs = 1 /\ AgentReturn(r, SessionOnly)
    \/ \E r \in Req : AgentRaise(r, <<"e">>)
    \/ \E r \in Req : ToolsStep(r)
    \/ \E r \in Req : StreamEndStep(r) /\ UNCHANGED prev_turn
    \/ \E r \in Req : PollStep(r) /\ UNCHANGED seen
    \/ \E r \in Req : ResumeHalf(r)
    \/ \E r \in Req : Finally(r)
    \/ \E t \in Threads, n \in 1..MaxSplits : UploadSession(t, n)

SpecChat == Init /\ [][NextChat]_vars

\* The stream chunks a model may emit: text as a str or as a list of blocks,
\* empty text, and chunks carrying tool-call deltas (with or without text)
ModelChunks ==
    { AIMessageChunk(StrContent(<<"a">>), 0),
      AIMessageChunk(StrContent(<<"b">>), 0),
      AIMessageChunk(StrContent(<<"a", NL, "b">>), 0),
      AIMessageChunk(StrContent(<<>>), 0),
      AIMessageChunk(StrContent(<<>>), 1),
      AIMessageChunk(StrContent(<<"a">>), 1),
      AIMessageChunk(ListContent(<<TextBlock(<<"a">>), OtherBlock, TextBlock(<<"b">>)>>), 0),
      AIMessageChunk(ListContent(<<RawBlock(<<"b">>)>>), 0),
      AIMessageChunk(ListContent(<<OtherBlock>>), 0),
      AIMessageChunk(ListContent(<<TextBlock(<<"a">>)>>), 1) }
ErrorTexts == {<<"e">>, <<"e", NL, "e">>}

\* One chat request at a time on /agent or /stream: every kind of stream chunk,
\* model failures, and a client that may disconnect at any moment.
NextStream ==
    \/ \E ep \in Endpoints, t \in {"s1", None} : NewRequest("r1", ep, t, "q1", None)
    \/ HandlerStart("r1")
    \/ \E chunk \in ModelChunks : ModelChunk("r1", chunk)
    \/ AgentReturn("r1", <<>>)
    \/ chat["r1"].agent_runs = 1 /\ AgentReturn("r1", SessionOnly)
    \/ chat["r1"].agent_runs = 1 /\ AgentReturn("r1", <<"search_global_knowledge">>)
    \/ \E e \in ErrorTexts : AgentRaise("r1", e)
    \/ ToolsStep("r1")
    \/ \E handled \in BOOLEAN : ToolsRaise("r1", handled)
    \/ StreamEndStep("r1") /\ UNCHANGED prev_turn
    \/ Poll("r1")
    \/ ResumeHalf("r1")
    \/ ResumeLoop("r1")
    \/ Finally("r1")
    \/ ClientDisconnect("r1")

SpecStream == Init /\ [][NextStream]_vars

\* One agent turn at a time: the model may request any tools, up to MaxCalls
\* per message, in up to MaxHops rounds.
NextGraph ==
    \/ \E t \in {"s1", None} : NewRequest("r1", "agent", t, "q1", None)
    \/ HandlerStart("r1")
    \/ \E names \in SeqsUpTo(ToolNames, MaxCalls) : AgentReturn("r1", names)
    \/ AgentRaise("r1", <<"e">>)
    \/ ToolsStep("r1")
    \/ \E handled \in BOOLEAN : ToolsRaise("r1", handled)
    \/ StreamEndStep("r1") /\ UNCHANGED prev_turn
    \/ PollStep("r1") /\ UNCHANGED seen
    \/ Finally("r1")
    \/ \E t \in Threads : UploadSession(t, 1)

SpecGraph == Init /\ [][NextGraph]_vars

\* Consecutive chat turns, each with a thread id and a question chosen by the
\* client; prev_turn records what each thread's latest finished turn held.
NextTurns ==
    \/ \E ep \in Endpoints, t \in Threads, q \in Questions : NewRequest("r1", ep, t, q, None)
    \/ HandlerStart("r1")
    \/ AgentReturn("r1", <<>>)
    \/ chat["r1"].agent_runs = 1 /\ AgentReturn("r1", <<"search_global_knowledge">>)
    \/ ToolsStep("r1")
    \/ StreamEnd("r1")
    \/ PollStep("r1") /\ UNCHANGED seen
    \/ ResumeHalf("r1")
    \/ Finally("r1")

SpecTurns == Init /\ [][NextTurns]_vars

\* A chat turn whose model and tools always return, whose model stops asking
\* for tools after at most MaxHops rounds, and whose client stays connected
\* and keeps reading the stream. TurnStep is every step of the turn; the
\* event loop runs whatever is ready, hence weak fairness on it.
TurnStep ==
    \/ HandlerStart("r1")
    \/ ModelChunk("r1", AIMessageChunk(StrContent(<<"a">>), 0))
    \/ \E names \in SeqsUpTo(ToolNames, 1) :
            chat["r1"].agent_runs <= MaxHops + 1 /\ AgentReturn("r1", names)
    \/ ToolsStep("r1")
    \/ StreamEndStep("r1") /\ UNCHANGED prev_turn
    \/ PollStep("r1") /\ UNCHANGED seen
    \/ ResumeHalf("r1")
    \/ ResumeLoop("r1")
    \/ Finally("r1")
NextLive ==
    \/ \E ep \in Endpoints : NewRequest("r1", ep, "s1", "q1", None)
    \/ TurnStep
SpecLive == Init /\ [][NextLive]_vars /\ WF_vars(TurnStep)

\* A chat turn whose model may request a tool on every invocation, for as
\* long as the run goes on, on either endpoint.
NextLoop ==
    \/ \E ep \in Endpoints, t \in Threads : NewRequest("r1", ep, t, "q1", None)
    \/ HandlerStart("r1")
    \/ \E names \in SeqsUpTo(ToolNames, 1) : AgentReturn("r1", names)
    \/ \E names \in SeqsUpTo(ToolNames, 1) : GraphRecursionError("r1", names)
    \/ ToolsStep("r1")
    \/ StreamEndStep("r1") /\ UNCHANGED prev_turn
    \/ PollStep("r1") /\ UNCHANGED seen
    \/ ResumeHalf("r1")
    \/ Finally("r1")
    \/ \E t \in Threads : UploadSession(t, 1)
SpecLoop == Init /\ [][NextLoop]_vars

\* The requests sent to /agent: messages with the keywords their text holds,
\* and the uploads that come with them
\* "Please evaluate these candidates"
PleaseEvaluate ==
    <<"P", "l", "e", "a", "s", "e", " ", "e", "v", "a", "l", "u", "a", "t", "e", " ", "t", "h", "e", "s", "e", " ", "c", "a", "n", "d", "i", "d", "a", "t", "e", "s">>
\* "Add this to the database"
AddThisToTheDatabase ==
    <<"A", "d", "d", " ", "t", "h", "i", "s", " ", "t", "o", " ", "t", "h", "e", " ", "d", "a", "t", "a", "b", "a", "s", "e">>
\* "What is the leave policy?"
WhatIsThePolicy ==
    <<"W", "h", "a", "t", " ", "i", "s", " ", "t", "h", "e", " ", "l", "e", "a", "v", "e", " ", "p", "o", "l", "i", "c", "y", "?">>
\* "Ingest this document"
IngestThisDocument ==
    <<"I", "n", "g", "e", "s", "t", " ", "t", "h", "i", "s", " ", "d", "o", "c", "u", "m", "e", "n", "t">>
\* "Hello"
Hello ==
    <<"H", "e", "l", "l", "o">>
\* "SCREEN the Resumes. "
EvaluatePart ==
    <<"S", "C", "R", "E", "E", "N", " ", "t", "h", "e", " ", "R", "e", "s", "u", "m", "e", "s", ".", " ">>
\* "Add this document, Store Permanently. "
IngestPart ==
    <<"A", "d", "d", " ", "t", "h", "i", "s", " ", "d", "o", "c", "u", "m", "e", "n", "t", ",", " ", "S", "t", "o", "r", "e", " ", "P", "e", "r", "m", "a", "n", "e", "n", "t", "l", "y", ".", " ">>
\* "How does it work? "
QuestionPart ==
    <<"H", "o", "w", " ", "d", "o", "e", "s", " ", "i", "t", " ", "w", "o", "r", "k", "?", " ">>
AgentMessages ==
    { Message(WhatIsThePolicy), Message(IngestThisDocument), Message(AddThisToTheDatabase),
      Message(PleaseEvaluate), Message(Hello) }
CandidateRows == <<Row("A.pdf", "c1"), Row("", "c2"), Row("x.pdf", ""), Row("a.pdf", "")>>
Archive == ZipFile("resumes.zip", {"a.pdf"})
Criteria == UploadedFile("criteria.pdf", ".pdf", 1)
AgentUploads ==
    { <<>>,
      <<UploadedFile("handbook.pdf", ".pdf", 1)>>,
      <<UploadedFile("notes.docx", ".docx", 0), UploadedFile("manual.txt", ".txt", BatchSize + 1)>>,
      <<UploadedFile("empty.md", ".md", 0)>>,
      <<Criteria, CsvFile("c.csv", TRUE, CandidateRows), Archive>>,
      <<Criteria, CsvFile("c.csv", FALSE, <<>>), Archive>>,
      <<Criteria, CsvFile("c.csv", TRUE, <<>>), Archive>>,
      <<CsvFile("c.csv", TRUE, CandidateRows), Archive>> }
AgentReplies ==
    { ReplyError,
      ReplyJson(TRUE, "chat", TRUE, 90),
      ReplyJson(TRUE, "ingest", TRUE, 70),
      ReplyJson(TRUE, "evaluate", FALSE, 0),
      ReplyJson(FALSE, None, TRUE, 60),
      ReplyJson(TRUE, "other", TRUE, 90) }

\* One /agent request at a time, from its arrival to the end of its stream:
\* every classification, the three workflows, failures inside them, and a
\* consumer that may drop, close or cancel the stream at any point.
NextAgent ==
    \/ \E m \in AgentMessages, f \in AgentUploads : AgentRequest("s1", m, f, TRUE)
    \/ \E m \in AgentMessages : AgentRequest(None, m, <<>>, TRUE)
    \/ \E f \in AgentUploads \ {<<>>} : AgentRequest("s1", Message(Hello), f, FALSE)
    \/ \E reply \in AgentReplies : Classify(reply)
    \/ ClassifyRaise
    \/ StartStream
    \/ Abandon
    \/ \E context \in {None, "text"} : DispatchChat(context)
    \/ DispatchJob
    \/ DispatchNone
    \/ CloseStream
    \/ CancelStream
    \/ agent.pc = "chat" /\ HandlerStart("r1")
    \/ agent.pc = "chat" /\ ModelChunk("r1", AIMessageChunk(StrContent(<<"a">>), 0))
    \/ agent.pc = "chat" /\ AgentReturn("r1", <<>>)
    \/ agent.pc = "chat" /\ AgentRaise("r1", <<"e">>)
    \/ agent.pc = "chat" /\ StreamEndStep("r1") /\ UNCHANGED prev_turn
    \/ agent.pc = "chat" /\ PollStep("r1") /\ UNCHANGED seen
    \/ agent.pc = "chat" /\ ResumeLoop("r1")
    \/ agent.pc = "chat" /\ ClientDisconnect("r1")
    \/ ChatEnd
    \/ \E loaded \in BOOLEAN : IngestFile(loaded)
    \/ IngestFilesDone
    \/ \E added \in BOOLEAN : IngestBatch(added)
    \/ IngestSummary
    \/ \E readable \in BOOLEAN : EvaluateBegin(readable)
    \/ \E oc \in [job.idx..Len(job.rows) -> RowOutcomes] : EvaluateRows(oc)
    \/ EvaluateResults
    \/ JobDone
    \/ JobEnd

SpecAgent == Init /\ [][NextAgent]_vars

\* Candidate evaluation on both endpoints, each request run to its end by a
\* client that keeps reading: every combination of a supported or unsupported
\* criteria file, a CSV with or without the column and rows, an archive that
\* is a ZIP or not, and every outcome of each row.
NoColumnRows == <<Row("", "c1")>>
BlankRows == <<Row(" ", "c1"), Row("a.pdf", "c2")>>
EvalCriteria == {Criteria, UploadedFile("criteria.docx", ".docx", 0)}
EvalCsvs ==
    { CsvFile("c.csv", TRUE, CandidateRows), CsvFile("c.csv", TRUE, BlankRows),
      CsvFile("c.csv", FALSE, NoColumnRows), CsvFile("c.csv", TRUE, <<>>) }
EvalArchives == {Archive, UploadedFile("resumes.rar", ".rar", 0)}
EvalUploads ==
    { <<Criteria, csv, Archive>> : csv \in EvalCsvs } \cup
    { <<CsvFile("c.csv", TRUE, CandidateRows), Archive>>,
      <<Criteria, CsvFile("c.csv", TRUE, CandidateRows)>> }
NextEval ==
    \/ \E criteria \in EvalCriteria, csv \in EvalCsvs, zip \in EvalArchives, saved \in BOOLEAN :
            evaluate_candidates(criteria, csv, zip, saved)
    \/ \E fault \in EvaluationFaults : EvaluationValidate(fault)
    \/ \E outcome \in RowOutcomes : EvaluationRow(outcome)
    \/ EvaluationReturn
    \/ \E f \in EvalUploads : AgentRequest("s1", Message(PleaseEvaluate), f, TRUE)
    \/ Classify(ReplyJson(TRUE, "evaluate", FALSE, 0))
    \/ StartStream
    \/ DispatchJob
    \/ \E readable \in BOOLEAN : EvaluateBegin(readable)
    \/ \E oc \in [job.idx..Len(job.rows) -> RowOutcomes] : EvaluateRows(oc)
    \/ EvaluateResults
    \/ JobDone
    \/ JobEnd
SpecEval == Init /\ [][NextEval]_vars

\* Ingestion by its three routes, each request run to its end: /upload with a
\* right or wrong admin key, a PDF or another file; the /agent ingest workflow;
\* /upload-session. The same documents are sent any number of times.
Handbook == UploadedFile("handbook.pdf", ".pdf", 1)
AdminUploads == {Handbook, UploadedFile("blank.pdf", ".pdf", 0), UploadedFile("notes.txt", ".txt", 1)}
AdminKeys == {ADMIN_KEY, "wrong", ""}
NextIngest ==
    \/ \E file \in AdminUploads, key \in AdminKeys, saved \in BOOLEAN :
            upload_admin_file(file, key, saved)
    \/ \E loaded \in BOOLEAN : UploadLoad(loaded)
    \/ \E added \in BOOLEAN : UploadBatch(added)
    \/ UploadDone
    \/ UploadEnd
    \/ \E t \in Threads, n \in 1..MaxSplits : UploadSession(t, n)
    \/ AgentRequest("s1", Message(IngestThisDocument), <<Handbook>>, TRUE)
    \/ Classify(NoReply)
    \/ StartStream
    \/ DispatchJob
    \/ IngestFile(TRUE)
    \/ IngestFilesDone
    \/ \E added \in BOOLEAN : IngestBatch(added)
    \/ IngestSummary
    \/ JobDone
    \/ JobEnd
SpecIngest == Init /\ [][NextIngest]_vars

\* /upload with the right key and the /agent ingest workflow: documents of no chunk, of less than one
\* batch, of exactly one batch, of one batch and one chunk, of two batches and
\* one chunk; loading and any batch may fail.
Manuals == {UploadedFile("manual.pdf", ".pdf", n) : n \in {0, 1, BatchSize, BatchSize + 1, 2 * BatchSize + 1}}
NextUpload ==
    \/ \E file \in Manuals, saved \in BOOLEAN : upload_admin_file(file, ADMIN_KEY, saved)
    \/ \E loaded \in BOOLEAN : UploadLoad(loaded)
    \/ \E added \in BOOLEAN : UploadBatch(added)
    \/ UploadDone
    \/ UploadEnd
    \/ \E file \in Manuals : AgentRequest("s1", Message(IngestThisDocument), <<file>>, TRUE)
    \/ Classify(NoReply)
    \/ StartStream
    \/ DispatchJob
    \/ \E loaded \in BOOLEAN : IngestFile(loaded)
    \/ IngestFilesDone
    \/ \E added \in BOOLEAN : IngestBatch(added)
    \/ IngestSummary
    \/ JobDone
    \/ JobEnd
SpecUpload == Init /\ [][NextUpload]_vars

\* The workflows side by side: a chat turn on /stream whose model asks for
\* either search tool, /upload-session, /upload with the right key, and /agent
\* requests routed to the ingest and to the evaluate workflow.
OneCandidate == <<Criteria, CsvFile("c.csv", TRUE, <<Row("a.pdf", "c1")>>), Archive>>
NextWorkflows ==
    \/ NewRequest("r2", "stream", "s1", "q1", None)
    \/ HandlerStart("r2")
    \/ AgentReturn("r2", <<>>)
    \/ \E name \in ToolNames : chat["r2"].agent_runs = 1 /\ AgentReturn("r2", <<name>>)
    \/ ToolsStep("r2")
    \/ StreamEndStep("r2") /\ UNCHANGED prev_turn
    \/ PollStep("r2") /\ UNCHANGED seen
    \/ ResumeHalf("r2")
    \/ Finally("r2")
    \/ \E t \in Threads : UploadSession(t, 1)
    \/ upload_admin_file(Handbook, ADMIN_KEY, TRUE)
    \/ UploadLoad(TRUE)
    \/ UploadBatch(TRUE)
    \/ UploadDone
    \/ UploadEnd
    \/ AgentRequest("s1", Message(IngestThisDocument), <<Handbook>>, TRUE)
    \/ AgentRequest("s1", Message(PleaseEvaluate), OneCandidate, TRUE)
    \/ Classify(NoReply)
    \/ StartStream
    \/ DispatchJob
    \/ IngestFile(TRUE)
    \/ IngestFilesDone
    \/ IngestBatch(TRUE)
    \/ IngestSummary
    \/ EvaluateBegin(TRUE)
    \/ \E oc \in [job.idx..Len(job.rows) -> {"meets"}] : EvaluateRows(oc)
    \/ EvaluateResults
    \/ JobDone
    \/ JobEnd
SpecWorkflows == Init /\ [][NextWorkflows]_vars

\* The three endpoints that keep an upload in a temporary file or directory,
\* on every path: rejected inputs, failures while saving, parsing and storing,
\* and a /upload stream that is dropped before it starts or closed midway.
NextCleanup ==
    \/ \E file \in AdminUploads, key \in AdminKeys, saved \in BOOLEAN :
            upload_admin_file(file, key, saved)
    \/ \E loaded \in BOOLEAN : UploadLoad(loaded)
    \/ \E added \in BOOLEAN : UploadBatch(added)
    \/ UploadDone
    \/ UploadEnd
    \/ UploadAbandon
    \/ UploadClose
    \/ \E file \in AdminUploads, t \in Threads, fault \in SessionUploadFaults :
            upload_session_file(file, t, fault)
    \/ \E criteria \in EvalCriteria, csv \in EvalCsvs, zip \in EvalArchives, saved \in BOOLEAN :
            evaluate_candidates(criteria, csv, zip, saved)
    \/ \E fault \in EvaluationFaults : EvaluationValidate(fault)
    \/ \E outcome \in RowOutcomes : EvaluationRow(outcome)
    \/ EvaluationReturn
SpecCleanup == Init /\ [][NextCleanup]_vars

\* evaluate_candidate on resume texts shorter than, as long as and longer than
\* the budget, with and without whitespace around and inside them
ResumeText(lead, body, trail) ==
    [i \in 1..lead |-> " "] \o [i \in 1..body |-> IF i = 2 /\ body > 2 THEN " " ELSE "a"]
                             \o [i \in 1..trail |-> NL]
ResumeTexts ==
    { ResumeText(lead, body, trail) :
        lead \in 0..2, trail \in 0..2,
        body \in {0, 1, 3, MAX_RESUME_CHARS - 1, MAX_RESUME_CHARS, MAX_RESUME_CHARS + 1} }
NextCandidate ==
    \/ \E resume_text \in ResumeTexts : evaluate_candidate(resume_text)
    \/ \E answer \in ModelAnswers : CandidateAnswer(answer)
SpecCandidate == Init /\ [][NextCandidate]_vars

\* get_graph called by the startup handler and by requests, again and again,
\* interleaved at every await
NextServer ==
    \/ \E c \in Callers : get_graph(c)
    \/ \E c \in Callers : Acquire(c)
    \/ \E c \in Callers : CancelAcquire(c)
    \/ \E c \in Callers : CheckGraph(c)
    \/ \E c \in Callers : BuildDone(c)
    \/ \E c \in Callers : Release(c)
    \/ \E c \in Callers : ReturnGraph(c)
SpecServer == Init /\ [][NextServer]_vars

\* Startup against a store in any state: no collection, one, both, with or
\* without the index; any store call may fail; the service is started
\* MaxRuns times, and session documents are uploaded in between.
Stores ==
    {Store(c, x) : c \in SUBSET {"dbeb", "dbeb_sessions"}, x \in BOOLEAN} \
        {Store(c, TRUE) : c \in SUBSET {"dbeb"}}
InitProvision ==
    /\ session_context = [c \in Contexts |-> None]
    /\ dbeb_sessions = <<>>
    /\ dbeb = <<>>
    /\ client = [r \in Req |-> "connected"]
    /\ chat = [r \in Req |-> IdleChat]
    /\ seen = [r \in Req |-> <<>>]
    /\ prev_turn = [t \in AllThreads |-> <<>>]
    /\ agent = IdleAgent
    /\ job = IdleJob
    /\ tool = NoCall
    /\ upload = IdleUpload
    /\ evaluation = IdleEvaluation
    /\ session_upload = IdleSessionUpload
    /\ candidate = IdleCandidate
    /\ server = IdleServer
    /\ qdrant \in Stores
    /\ startup = IdleStartup
NextProvision ==
    \/ \E fault \in Faults : ensure_collections_exist(fault)
    \/ \E t \in Threads :
          "dbeb_sessions" \in qdrant.collections /\ UploadSession(t, 1)
SpecProvision == InitProvision /\ [][NextProvision]_vars

\* route_intent as a function of the message, the attached file names and the
\* model's reply: messages put together from an evaluation part, an ingestion
\* part and a question part (in mixed case), the messages the documentation
\* names, file lists with and without a CSV and a ZIP, every kind of reply.
RouterText(e, i, q) ==
    (IF e THEN EvaluatePart ELSE <<>>) \o (IF i THEN IngestPart ELSE <<>>) \o
    (IF q THEN QuestionPart ELSE <<>>)
RouterTexts ==
    {RouterText(e, i, q) : e \in BOOLEAN, i \in BOOLEAN, q \in BOOLEAN}
        \cup {PleaseEvaluate, AddThisToTheDatabase, WhatIsThePolicy, IngestThisDocument, Hello}
CsvZipUploads ==
    { <<CsvFile("c.csv", TRUE, <<>>), Archive>>,
      <<UploadedFile("DATA.CSV", ".CSV", 0), UploadedFile("CV.ZIP", ".ZIP", 0)>>,
      <<Criteria, CsvFile("candidates.csv", TRUE, <<>>), Archive>> }
RouterUploads ==
    CsvZipUploads \cup
    { <<>>,
      <<UploadedFile("handbook.pdf", ".pdf", 1)>>,
      <<CsvFile("c.csv", TRUE, <<>>)>>,
      <<UploadedFile("handbook.pdf", ".pdf", 1), UploadedFile("manual.txt", ".txt", 1)>> }
Replies ==
    AgentReplies \cup { ReplyNotJson, ReplyNotObject, ReplyBadConfidence("ingest"),
                        ReplyJson(TRUE, "chat", TRUE, 150) }
NextRouter ==
    \/ \E text \in RouterTexts, f \in RouterUploads : AgentRequest("s1", Message(text), f, TRUE)
    \/ \E reply \in Replies : Classify(reply)
    \/ ClassifyRaise
    \/ Abandon
SpecRouter == Init /\ [][NextRouter]_vars


(* ------------------------------------------------------------------ *)
(* Claims                                                               *)
(* ------------------------------------------------------------------ *)

\* C1: every chunk stored in the session collection carries the uploader's
\* thread id, and every chunk search_session_knowledge returned during a
\* request carries that request's thread id (no other session's, none untagged).
C1_SessionSearchIsolated ==
    /\ \A i \in 1..Len(dbeb_sessions) : dbeb_sessions[i].session_id \in Threads
    /\ \A r \in Req : \A c \in chat[r].hits :
          c.session_id = chat[r].thread_id /\ c.session_id # None

\* C1 witness: a search returned chunks while another session's chunks were stored
C1_Witness ==
    \E r \in Req :
        /\ chat[r].hits # {}
        /\ \E i \in 1..Len(dbeb_sessions) : dbeb_sessions[i].session_id # chat[r].thread_id

\* C2: whenever search_session_knowledge ran for a request, the thread id it
\* read from session_context is that request's own: not another request's,
\* not the unset default.
C2_ToolReadsOwnThread ==
    \A r \in Req : \A t \in chat[r].reads : t = chat[r].thread_id /\ t # None

\* C2 witness: the tool ran for one request while another request with a
\* different thread id had bound its own id and was still being served
C2_Witness ==
    \E r, o \in Req :
        /\ r # o
        /\ chat[r].reads # {}
        /\ chat[r].pc \notin {"idle", "finished"}
        /\ chat[o].pc \notin {"idle", "created", "finished"}
        /\ chat[o].thread_id # chat[r].thread_id

\* C3: when a chat handler has ended (normally, by an exception of the model
\* or graph stream, or after a detected disconnect), session_context holds in
\* the request's Context the value it had before the handler set it.
C3_ContextRestored ==
    \A r \in Req :
        chat[r].pc = "finished" =>
            /\ session_context[TaskContext(r)] = chat[r].token
            /\ session_context[TaskContext(r)] # chat[r].thread_id

\* C3 witness: a handler ended after detecting that its client was gone
C3_Witness ==
    \E r \in Req : chat[r].pc = "finished" /\ chat[r].exit = "disconnect"

\* C4: in every turn START is left for AGENT; a completed AGENT step is followed
\* by TOOLS iff the model's message requests tools and by END iff it requests
\* none; a completed TOOLS step is followed by AGENT; after END the turn takes
\* no further step. (A node that raises completes no step: the turn is failed.)
HasToolCalls(messages) == messages # <<>> /\ Len(Last(messages).tool_calls) > 0
SameTurn(r) == chat'[r].pc # "created"
C4_Step(r) ==
    LET h == chat[r]
        n == chat'[r]
    IN  /\ (h.node = "START" /\ n.node # "START") => n.node = "agent"
        /\ (h.node = "agent" /\ SameTurn(r) /\ n.messages # h.messages) =>
              /\ n.node \in {"tools", "END"}
              /\ n.node = "tools" <=> HasToolCalls(n.messages)
              /\ n.node = "END" <=> ~HasToolCalls(n.messages)
        /\ (h.node = "agent" /\ SameTurn(r) /\ n.node # "agent") =>
              n.node = "failed" \/ n.messages # h.messages
        /\ (h.node = "tools" /\ n.node # "tools") =>
              n.node = "failed" \/ (n.node = "agent" /\ n.tools_runs = h.tools_runs + 1)
        /\ (h.node = "END" /\ SameTurn(r)) =>
              /\ n.node = "END" /\ n.messages = h.messages
              /\ n.agent_runs = h.agent_runs /\ n.tools_runs = h.tools_runs
C5_LaterInput(h) ==
    LET n == Len(h.prev_input)
        ai == h.input[n + 1]
        calls == ai.tool_calls
    IN  /\ Len(h.input) = n + 1 + Len(calls)
        /\ SubSeq(h.input, 1, n) = h.prev_input
        /\ ai.type = "ai" /\ Len(calls) >= 1
        /\ \A i \in 1..Len(calls) :
              /\ h.input[n + 1 + i].type = "tool"
              /\ h.input[n + 1 + i].tool_call_id = calls[i].id
C5_ToolResultsAppended ==
    \A r \in Req :
        /\ chat[r].agent_runs >= 1 => chat[r].tools_runs = chat[r].agent_runs - 1
        /\ chat[r].agent_runs >= 2 =>
              /\ Len(chat[r].input) > Len(chat[r].prev_input)
              /\ C5_LaterInput(chat[r])

\* C5 witness: a second AGENT invocation follows a message requesting two
\* different tools
C5_Witness ==
    LET h == chat["r1"]
    IN  /\ h.agent_runs = 2 /\ h.node = "agent"
        /\ Len(h.input) = 4
        /\ h.input[2].tool_calls[1].name # h.input[2].tool_calls[2].name

\* C6: the first AGENT invocation of a turn receives the messages accumulated
\* by the latest finished turn of the same thread id, followed by the new user
\* message.
C6_FirstInputHasHistory ==
    \A r \in Req :
        (chat[r].agent_runs = 1 /\ chat[r].node = "agent") =>
            chat[r].input = prev_turn[chat[r].thread_id] \o <<HumanMessage(chat[r].content)>>

\* C8: once a chat stream has detected that the client is gone, it yields no
\* further frame: no token, no done, no error.
Terminal(name) == name \in {"done", "error", "sse-error"}
C8_NoFrameAfterDisconnect ==
    \A r \in Req :
        chat[r].exit = "disconnect" =>
            \A i \in 1..Len(chat[r].out) : ~Terminal(chat[r].out[i].event)

\* C10: the token frames are, in order, the non-empty texts of the consumed
\* stream events that carry no tool-call chunks, one frame per such event, and
\* a done frame is emitted exactly when the event stream ends without exception.
TextOf(event) == ChunkData(event.chunk.content)
Qualifies(event) ==
    /\ event.event = "on_chat_model_stream"
    /\ event.chunk.tool_call_chunks = 0
    /\ TextOf(event) # <<>>
RECURSIVE ExpectedTokens(_)
ExpectedTokens(events) ==
    IF events = <<>> THEN <<>>
    ELSE (IF Qualifies(Head(events)) THEN <<TextOf(Head(events))>> ELSE <<>>)
         \o ExpectedTokens(Tail(events))
IsToken(frame) == frame.event = "token"
IsDone(frame) == frame.event = "done"
DataOf(frames) == [i \in 1..Len(frames) |-> frames[i].data]
C10_TokensMatchEvents ==
    \A r \in Req :
        chat[r].pc \notin {"y_half", "idle"} =>
            DataOf(SelectSeq(Frames(r), IsToken)) = ExpectedTokens(seen[r])
C10_DoneIffStreamEnded ==
    \A r \in Req :
        chat[r].pc = "finished" =>
            (Len(SelectSeq(Frames(r), IsDone)) = 1 <=> chat[r].exit = "normal")
C10_TokenAndDoneFrames == C10_TokensMatchEvents /\ C10_DoneIffStreamEnded

\* C7: an /agent response stream consumed to its end is one intent frame
\* first, then the frames of one workflow, and ends with exactly one terminal
\* frame (done or error), whatever classification route_intent returned.
Terminals(frames) == {i \in 1..Len(frames) : Terminal(frames[i].event)}
Intents(frames) == {i \in 1..Len(frames) : frames[i].event = "intent"}
C7_OneIntentOneTerminal ==
    agent.pc = "finished" =>
        /\ Intents(AgentOut) = {1}
        /\ Terminals(AgentOut) = {Len(AgentOut)}

\* C9: when an /agent request is finished (its stream ended, was closed or
\* cancelled, was never started, or the endpoint raised HTTP 500), its
\* temporary directory has been deleted.
C9_TempDirDeleted ==
    (Over(agent) /\ agent.pc # "idle") => agent.temp_dir = "deleted"

\* C11: when an exception of the model or of the store reaches the chat
\* handler, the stream ends with exactly one error frame (error on /agent,
\* sse-error on /stream), which is its last frame, it carries no done frame,
\* and no step of a turn that does not end normally writes to a collection
\* or to the messages kept for a thread.
IsError(frame) == frame.event \in {"error", "sse-error"}
C11_EndsWithOneError ==
    \A r \in Req :
        (chat[r].exit = "exception" /\ chat[r].pc \in {"y_error", "y_done", "finished"}) =>
            LET frames == Frames(r)
            IN  /\ frames # <<>>
                /\ {i \in 1..Len(frames) : IsError(frames[i])} = {Len(frames)}
                /\ Last(frames).event = ErrorEvent(chat[r].endpoint)
                /\ \A i \in 1..Len(frames) : ~IsDone(frames[i])
C11_TurnWritesNothing ==
    \A r \in Req :
        (chat'[r] # chat[r] /\ chat'[r].pc \notin {"idle", "created"}
                           /\ chat'[r].exit # "normal") =>
            UNCHANGED <<dbeb_sessions, dbeb, prev_turn>>
C13_ToolFailureContained ==
    \A r \in Req : chat[r].escaped = {} /\ chat[r].cause # "tool"

\* C12: every frame sent on /agent and /stream is one event-name line and
\* one data line, and its data payload holds no newline character (the
\* payload of a results frame is JSON text, in which newlines are escaped).
PayloadOneLine(frame) ==
    frame.event # "results" => \A i \in 1..Len(frame.data) : frame.data[i] # NL
C12_FramesWellFormed ==
    /\ \A i \in 1..Len(AgentOut) :
          AgentOut[i].event # None /\ AgentOut[i].has_data /\ PayloadOneLine(AgentOut[i])
    /\ \A r \in Req : \A i \in 1..Len(Frames(r)) :
          Frames(r)[i].event # None /\ PayloadOneLine(Frames(r)[i])


\* C14: search_session_knowledge called while session_context is unset or
\* empty returns its explanatory message, runs no search on the session
\* collection, and raises nothing.
C14_UnsetContextDegrades ==
    (tool.called /\ tool.value \in {None, Empty}) =>
        /\ tool.outcome.content = "No session context found"
        /\ ~tool.outcome.searched /\ tool.outcome.hits = {}
        /\ ~tool.outcome.raised /\ ~tool.outcome.propagates
C14_Witness ==
    /\ tool.called /\ tool.value = Empty
    /\ Matching(dbeb_sessions, Empty) = {} /\ Len(dbeb_sessions) = MaxStore

\* C15: if the model and the tools always return and the model eventually
\* answers without tool-call requests, every turn that has started reaches
\* END and its stream carries a terminal frame.
HasTerminal(r) == \E i \in 1..Len(Frames(r)) : Terminal(Frames(r)[i].event)
Routed == agent.route # ""
EvaluateTexts == {RouterText(TRUE, i, q) : i \in BOOLEAN, q \in BOOLEAN} \cup {PleaseEvaluate}
IngestTexts == {RouterText(e, TRUE, q) : e \in BOOLEAN, q \in BOOLEAN} \cup {IngestThisDocument}
QuestionTexts == {RouterText(e, i, TRUE) : e \in BOOLEAN, i \in BOOLEAN} \cup {WhatIsThePolicy}
Rule1 == agent.message.text \in EvaluateTexts /\ agent.files \in CsvZipUploads
Rule2 == agent.message.text \in IngestTexts
Rule3 == Len(agent.files) <= 1 /\ agent.message.text \in QuestionTexts
Is(result, intent, confidence) == result.intent = intent /\ result.confidence = confidence

\* C16: route_intent issues no model call and returns the heuristic's result
\* unchanged when that result has confidence at least 0.85; otherwise it
\* issues exactly one model call; it never issues more than one.
C16_ModelCalls ==
    Routed =>
        /\ agent.model_calls <= 1
        /\ Decided(agent.heuristic) =>
              agent.model_calls = 0 /\ agent.route = "returned" /\ agent.intent = agent.heuristic
        /\ ~Decided(agent.heuristic) => agent.model_calls = 1

\* C17: a message with an evaluation keyword and a file list with a .csv and
\* a .zip name, in any letter case, is routed to evaluate with confidence
\* 0.95 and without a model call.
C17_EvaluateRule ==
    (Routed /\ Rule1) =>
        /\ agent.route = "returned" /\ Is(agent.intent, "evaluate", 95)
        /\ agent.model_calls = 0
C17_Witness ==
    /\ Routed /\ agent.message.text = PleaseEvaluate
    /\ agent.files = <<Criteria, CsvFile("candidates.csv", TRUE, <<>>), Archive>>
    /\ Is(agent.intent, "evaluate", 95)

\* C18: "Add this to the database", and every message with ingestion
\* phrasing that does not match the evaluate rule, is routed to ingest with
\* confidence 0.90 by the heuristic, without a model call.
C18_IngestRule ==
    (Routed /\ ~Rule1 /\ agent.message.text \in IngestTexts \cup {AddThisToTheDatabase}) =>
        /\ agent.route = "returned" /\ Is(agent.intent, "ingest", 90)
        /\ agent.model_calls = 0

\* C19: the heuristic's rules apply in priority order, the first match wins:
\* evaluate 0.95, else ingest 0.90, else chat 0.85, else no result.
C19_RulePriority ==
    Routed =>
        IF Rule1 THEN Is(agent.heuristic, "evaluate", 95)
        ELSE IF Rule2 THEN Is(agent.heuristic, "ingest", 90)
        ELSE IF Rule3 THEN Is(agent.heuristic, "chat", 85)
        ELSE agent.heuristic = NoIntent
C19_Witness ==
    /\ Routed /\ Rule1 /\ Rule2 /\ Is(agent.heuristic, "evaluate", 95)
    /\ agent.message.text = RouterText(TRUE, TRUE, TRUE)

\* C20: whatever the model-based classification step does, route_intent
\* returns without raising, and when that step fails the result is chat with
\* confidence 0.5 and a rationale that notes the failure.
C20_ClassificationNeverRaises ==
    (Routed /\ ~Decided(agent.heuristic)) =>
        /\ agent.route = "returned"
        /\ Fails(agent.reply) =>
              agent.intent = IntentClassification("chat", 50, "Classification failed, defaulting to chat")

\* C21: every classification route_intent returns has a category among chat,
\* ingest, evaluate and a confidence between 0 and 1 (0 and 100 hundredths).
C21_ClassificationInRange ==
    (Routed /\ agent.route = "returned") =>
        /\ agent.intent.intent \in {"chat", "ingest", "evaluate"}
        /\ agent.intent.confidence \in 0..100

\* The two evaluation workflows as the claims see them: the CSV of the
\* request, whether a run is over, and whether a row names a resume that the
\* archive holds.
EvaluationCsv == evaluation.files[2]
AgentEvaluates == job.kind = "evaluate"
AgentHasCsv == AgentEvaluates /\ HasSuffix(agent.files, ".csv")
AgentCsv == LastWith(agent.files, ".csv")
JobOver == AgentEvaluates /\ job.pc \in {"end", "returned"}
Resolved(row, names) ==
    Strip(row.resume_filename) # "" /\ Lower(Strip(row.resume_filename)) \in {Lower(n) : n \in names}
CallsFor(calls, i) == Cardinality({k \in 1..Len(calls) : calls[k] = i})

\* C22: a CSV whose header lacks resume_filename is rejected before any model
\* call, on /evaluate-candidates and in the /agent evaluate workflow: no call
\* of evaluate_candidate, no result entry, no results in the answer.
C22_MissingColumnRejected ==
    /\ (evaluation.pc # "idle" /\ ~EvaluationCsv.has_column) =>
          /\ evaluation.calls = <<>> /\ evaluation.results = <<>>
          /\ evaluation.status # 200 /\ evaluation.response = NoResponse
    /\ (AgentHasCsv /\ ~AgentCsv.has_column) =>
          /\ job.calls = <<>> /\ job.results = <<>>
          /\ \A i \in 1..Len(job.out) : job.out[i].event # "results"
C22_Witness ==
    /\ evaluation.pc = "answered" /\ evaluation.status = 400
    /\ ~EvaluationCsv.has_column /\ EvaluationCsv.rows # <<>>
    /\ Lower(evaluation.files[3].suffix) = ".zip" /\ Loadable(evaluation.files[1])
    /\ JobOver /\ AgentHasCsv /\ ~AgentCsv.has_column /\ Missing(agent.files) = <<>>
    /\ Len(job.out) = 3

\* C23: for a CSV with n rows the workflow produces n entries in row order,
\* each with exactly one of error and evaluation; a row with an empty or
\* unknown filename gets an error and no model call; a row whose resume was
\* found and extracted gets exactly one model call; an error on one row does
\* not keep a later row from being evaluated.
RowsSettled(rows, names, results, calls, ids) ==
    /\ Len(results) = Len(rows)
    /\ Len(calls) = Cardinality({i \in 1..Len(rows) : CallsFor(calls, i) > 0})
    /\ \A i \in 1..Len(rows) :
          /\ results[i].candidate_id = ids[i]
          /\ results[i].has_evaluation <=> results[i].error = ""
          /\ IF Resolved(rows[i], names)
             THEN /\ results[i].has_evaluation \/ results[i].error \in {"extraction failed", "model failed"}
                  /\ CallsFor(calls, i) = IF results[i].error = "extraction failed" THEN 0 ELSE 1
             ELSE ~results[i].has_evaluation /\ CallsFor(calls, i) = 0
C23_RowsIndependent ==
    /\ (evaluation.pc = "answered" /\ evaluation.status = 200) =>
          RowsSettled(EvaluationCsv.rows, evaluation.files[3].names,
                      evaluation.response.evaluated_candidates, evaluation.calls,
                      [i \in 1..Len(EvaluationCsv.rows) |->
                          IF EvaluationCsv.rows[i].candidate_id # ""
                          THEN <<EvaluationCsv.rows[i].candidate_id>> ELSE <<None>>])
    /\ (AgentEvaluates /\ job.pc \in {"results", "done", "end", "returned"} /\ job.rows # <<>>) =>
          RowsSettled(AgentCsv.rows, LastWith(agent.files, ".zip").names, job.results, job.calls,
                      [i \in 1..Len(AgentCsv.rows) |-> CandidateId(AgentCsv.rows[i], i)])
C23_Witness ==
    /\ evaluation.pc = "answered" /\ evaluation.status = 200
    /\ EvaluationCsv.rows = CandidateRows
    /\ evaluation.results[1].error = "model failed"
    /\ ~evaluation.results[2].has_evaluation /\ ~evaluation.results[3].has_evaluation
    /\ evaluation.results[4].has_evaluation /\ evaluation.calls = <<1, 4>>
    /\ JobOver /\ job.rows = CandidateRows
    /\ job.results[1].error = "extraction failed" /\ job.results[4].has_evaluation
    /\ job.calls = <<4>>

\* C24: the final output of the evaluation workflow, on /evaluate-candidates
\* and on /agent, holds every per-candidate result and a pass count equal to
\* the number of entries whose evaluation has meets_requirements true.
PassCount(results) ==
    Cardinality({i \in 1..Len(results) : results[i].has_evaluation /\ results[i].meets_requirements})
C24_ResultsAndPassCount ==
    /\ (evaluation.pc = "answered" /\ evaluation.status = 200) =>
          /\ evaluation.response.evaluated_candidates = evaluation.results
          /\ "passed" \in evaluation.response.keys
    /\ (JobOver /\ job.rows # <<>>) =>
          \E k \in 2..Len(job.out) :
              /\ job.out[k].event = "results" /\ job.out[k].data = job.results
              /\ job.out[k - 1].event = "token"
              /\ job.out[k - 1].data[6] = ToString(PassCount(job.results))

\* C25: a request with malformed input (an archive that is no .zip, an
\* unsupported criteria type, a CSV without the column or without rows, a
\* missing criteria, CSV or ZIP file on /agent) is answered with a 4xx status
\* (500 when the server fails before it looks at the input) or with an error
\* frame, and causes no model call and no write to either collection.
C25_MalformedInputRejected ==
    /\ (/\ evaluation.pc = "answered"
        /\ \/ Lower(evaluation.files[3].suffix) # ".zip" \/ ~Loadable(evaluation.files[1])
           \/ ~EvaluationCsv.has_column \/ EvaluationCsv.rows = <<>>) =>
          evaluation.status \in {400, 500} /\ evaluation.calls = <<>>
    /\ (/\ JobOver
        /\ \/ Missing(agent.files) # <<>>
           \/ ~AgentCsv.has_column \/ AgentCsv.rows = <<>>) =>
          /\ \E i \in 1..Len(job.out) : IsError(job.out[i])
          /\ job.calls = <<>>
    /\ dbeb = <<>> /\ dbeb_sessions = <<>>

\* C26: a /upload request whose X-Admin-Key differs from the configured
\* secret is answered 401 before a temporary file is written, a document
\* parsed or a chunk added: no step of such a request changes the global
\* collection.
C26_Rejected ==
    (upload.pc # "idle" /\ upload.x_admin_key # ADMIN_KEY) =>
        /\ upload.pc = "answered" /\ upload.status = 401
        /\ upload.temp_file = "none" /\ ~upload.loaded /\ upload.splits = <<>>
        /\ upload.out = <<>>
C26_WritesNothing ==
    (upload' # upload /\ upload'.x_admin_key # ADMIN_KEY) => dbeb' = dbeb
C26_WrongKeyRejected == []C26_Rejected /\ [][C26_WritesNothing]_vars
C26_Witness ==
    /\ upload.pc = "answered" /\ upload.status = 401 /\ upload.x_admin_key = "wrong"
    /\ upload.file = Handbook /\ dbeb # <<>>

\* C27: ingestion does not deduplicate. Every batch that /upload, the /agent
\* ingest workflow or /upload-session adds raises the number of copies of each
\* of its chunks in the collection by the number of times the batch holds it,
\* also when the collection holds the chunk already, and no copy is removed.
Copies(coll, d) == Cardinality({i \in 1..Len(coll) : coll[i] = d})
Added(coll, after, batch) ==
    \A d \in {batch[i] : i \in 1..Len(batch)} \cup {coll[i] : i \in 1..Len(coll)} :
        Copies(after, d) = Copies(coll, d) + Copies(batch, d)
C27_Step ==
    /\ (upload.pc = "batches" /\ upload'.pc = "batches" /\ upload'.cur > upload.cur) =>
          Added(dbeb, dbeb', SubSeq(upload.splits, upload.cur + 1,
                                    Min(upload.cur + BatchSize, Len(upload.splits))))
    /\ (job.pc = "batches" /\ job'.pc = "batches" /\ job'.cur > job.cur) =>
          Added(dbeb, dbeb', SubSeq(job.all_splits, job.cur + 1,
                                    Min(job.cur + BatchSize, Len(job.all_splits))))
    /\ dbeb_sessions' # dbeb_sessions =>
          \E t \in Threads, n \in 1..MaxSplits :
              Added(dbeb_sessions, dbeb_sessions',
                    [i \in 1..n |-> [page_content |-> i, session_id |-> t]])
C27_NoDeduplication == [][C27_Step]_vars
C27_Witness ==
    /\ upload.pc = "finished" /\ upload.file = Handbook /\ upload.cur >= Len(upload.splits)
    /\ job.pc = "returned" /\ job.kind = "ingest"
    /\ Copies(dbeb, SplitDocuments(Handbook)[1]) = 3
    /\ Copies(dbeb_sessions, [page_content |-> 1, session_id |-> "s1"]) = 2

\* C28: ensure_collections_exist never raises: whichever store call fails, and
\* however, the startup handler completes and the service starts.
C28_StartupNeverRaises == startup.runs > 0 => startup.pc = "started"
C28_Witness ==
    /\ startup.pc = "started" /\ startup.raised
    /\ qdrant.collections = {"dbeb"} /\ startup.before.collections = {}

\* C29: provisioning is idempotent. After a run in which no store call failed
\* both collections and the index exist; create_collection is never issued
\* for a collection that exists; no run changes what a collection holds, and
\* a run against a provisioned store changes nothing.
C29_Provisioned ==
    /\ (startup.runs > 0 /\ ~startup.raised) => qdrant = Provisioned
    /\ \A i \in 1..Len(startup.creates) : ~startup.creates[i].existed
C29_Step ==
    startup' # startup =>
        /\ dbeb' = dbeb /\ dbeb_sessions' = dbeb_sessions
        /\ qdrant.collections \subseteq qdrant'.collections
        /\ qdrant = Provisioned => qdrant' = qdrant /\ startup'.creates = startup.creates
C29_ProvisioningIdempotent == []C29_Provisioned /\ [][C29_Step]_vars
C29_Witness ==
    /\ startup.runs = 2 /\ ~startup.raised
    /\ startup.before = Provisioned /\ qdrant = Provisioned
    /\ Len(startup.creates) = 1 /\ dbeb_sessions # <<>>

\* the tool-call requests of a turn: its model responses that hold tool calls
Requests(h) == Cardinality({i \in 1..Len(h.messages) : h.messages[i].tool_calls # <<>>})

\* C30 (as stated): the graph enforces no maximum hop count: a turn in which
\* the model requests a tool call n times in a row executes TOOLS n times and
\* raises no fatal-turn error, for every n.
C30_NoHopLimit ==
    \A r \in Req :
        chat[r].node \in {"agent", "END", "failed"} =>
            chat[r].tools_runs = Requests(chat[r]) /\ chat[r].exit # "exception"

\* C30 (amended): the turn runs under the library's recursion limit. TOOLS
\* runs once for every request made while the run has steps left; the graph
\* reaches END only after a response without tool calls; a request made when
\* the run is out of steps ends the turn with one error frame and no done.
C30_HopLimit ==
    \A r \in Req :
        LET h == chat[r]
        IN  /\ h.agent_runs + h.tools_runs <= RecursionLimit
            /\ (h.node \in {"agent", "END"}) => h.tools_runs = Requests(h)
            /\ h.node = "END" => Last(h.messages).tool_calls = <<>>
            /\ h.node = "failed" =>
                  /\ h.cause = "recursion"
                  /\ h.agent_runs + h.tools_runs = RecursionLimit
                  /\ Requests(h) = h.tools_runs + 1
                  /\ h.pc \in {"y_error", "finished"} =>
                        /\ {i \in 1..Len(Frames(r)) : IsError(Frames(r)[i])} = {Len(Frames(r))}
                        /\ \A i \in 1..Len(Frames(r)) : ~IsDone(Frames(r)[i])
C30_Witness ==
    /\ chat["r1"].pc = "finished" /\ chat["r1"].cause = "recursion"
    /\ chat["r1"].tools_runs = MaxHops /\ Requests(chat["r1"]) = MaxHops + 1

\* C31: a /upload ingestion of a document of T chunks yields one init frame
\* carrying T, then ceil(T/20) progress frames whose current values are
\* min(20k, T) for k = 1, 2, ..., then one done frame; the step that yields the
\* k-th progress frame appends chunks min(20(k-1), T)+1 .. min(20k, T) of the
\* document to the global collection, and no other step of the request writes
\* to it (so no write at all for T = 0). A failure ends the frames with one
\* error frame instead.
IsProgress(frame) == frame.event = "progress"
Ceil(T) == (T + BatchSize - 1) \div BatchSize
ProgressFrames(T, n) ==
    [k \in 1..n |-> Frame("progress", <<ToString(Min(BatchSize * k, T)), ToString(T)>>)]
C31_Frames ==
    LET T == upload.file.chunks
        out == upload.out
        n == Len(SelectSeq(out, IsProgress))
    IN  (upload.pc \in {"batches", "end", "finished"} /\ out # <<>> /\ ~IsError(out[1])) =>
            /\ n <= Ceil(T)
            /\ \/ out = <<Frame("init", <<ToString(T)>>)>> \o ProgressFrames(T, n)
               \/ out = <<Frame("init", <<ToString(T)>>)>> \o ProgressFrames(T, n)
                          \o <<Frame("error", <<"add_documents failed">>)>>
               \/ /\ n = Ceil(T)
                  /\ out = <<Frame("init", <<ToString(T)>>)>> \o ProgressFrames(T, n)
                          \o <<Frame("done", <<"Successfully processed", upload.file.name>>)>>
            /\ (upload.pc = "batches" /\ n = Ceil(T)) => ENABLED UploadDone
            /\ (upload.pc = "batches" /\ n < Ceil(T)) => ~ENABLED UploadDone
C31_Step ==
    LET T == upload.file.chunks
        k == Len(SelectSeq(upload'.out, IsProgress))
    IN  upload' # upload =>
            IF upload'.out # upload.out /\ upload'.out # <<>> /\ IsProgress(Last(upload'.out))
            THEN dbeb' = dbeb \o SubSeq(SplitDocuments(upload.file),
                                         Min(BatchSize * (k - 1), T) + 1, Min(BatchSize * k, T))
            ELSE dbeb' = dbeb
C31_UploadProgress == []C31_Frames /\ [][C31_Step]_vars
C31_Witness ==
    /\ upload.pc = "finished" /\ upload.file.chunks = 2 * BatchSize + 1
    /\ Len(SelectSeq(upload.out, IsProgress)) = 3 /\ IsDone(Last(upload.out))
    /\ Len(dbeb) >= 2 * BatchSize + 1


\* C32: when adding batch k fails on /upload or in the /agent ingest workflow,
\* the failing step and every later step of the request leave the global
\* collection as batches 1 to k-1 left it (nothing is removed, no later batch
\* is added), and the frames end with one error frame and hold no done frame.
IsPrefix(s, t) == Len(s) <= Len(t) /\ SubSeq(t, 1, Len(s)) = s
BatchFailed(out) ==
    /\ \E i \in 1..Len(out) : IsError(out[i])
    /\ \E i \in 1..Len(out) :
            \/ out[i].event = "init"
            \/ out[i].event = "status" /\ out[i].data[1] = "ingesting"
C32_Frames(out) ==
    BatchFailed(out) =>
        /\ {i \in 1..Len(out) : IsError(out[i])} = {Len(out)}
        /\ \A i \in 1..Len(out) : ~IsDone(out[i])
C32_Step ==
    /\ IsPrefix(dbeb, dbeb')
    /\ (~BatchFailed(upload.out) /\ BatchFailed(upload'.out)) => dbeb' = dbeb
    /\ (~BatchFailed(job.out) /\ BatchFailed(job'.out)) => dbeb' = dbeb
    /\ (BatchFailed(upload.out) /\ upload' # upload /\ upload'.out # <<>>) =>
            upload'.out = upload.out /\ dbeb' = dbeb
    /\ (BatchFailed(job.out) /\ job' # job /\ job'.out # <<>>) =>
            job'.out = job.out /\ dbeb' = dbeb
C32_BatchFailureStops ==
    [](C32_Frames(upload.out) /\ C32_Frames(job.out)) /\ [][C32_Step]_vars
C32_Witness ==
    /\ upload.pc = "finished" /\ IsError(Last(upload.out)) /\ upload.cur = BatchSize
    /\ job.pc = "returned" /\ job.kind = "ingest" /\ IsError(Last(job.out)) /\ job.cur = 2 * BatchSize
    /\ Len(dbeb) = 3 * BatchSize

\* C33: every step that changes the global collection is a step of a /upload
\* request whose X-Admin-Key was compared with the configured secret and
\* matched it: no request that did not present the admin key changes the
\* global collection, on any endpoint.
C33_Step ==
    dbeb' # dbeb =>
        /\ upload' # upload /\ upload.pc = "batches"
        /\ upload.status = 200 /\ upload.x_admin_key = ADMIN_KEY
C33_GlobalWritesNeedAdminKey == [][C33_Step]_vars

\* C34: each workflow changes only its own part of the state. A step of a
\* chat turn leaves both collections as they are; a step of /upload or of the
\* /agent ingest workflow leaves the session collection and every context
\* variable as they are; a step of the evaluate workflow leaves both
\* collections and every context variable as they are; a step that changes
\* the session collection is a /upload-session step, which appends chunks all
\* tagged with one thread id and changes nothing else.
WorkflowStep == job' # job /\ job'.pc # "idle"
C34_Step ==
    /\ chat' # chat => dbeb' = dbeb /\ dbeb_sessions' = dbeb_sessions
    /\ upload' # upload =>
            dbeb_sessions' = dbeb_sessions /\ session_context' = session_context /\ chat' = chat
    /\ (WorkflowStep /\ job'.kind = "ingest") =>
            dbeb_sessions' = dbeb_sessions /\ session_context' = session_context /\ chat' = chat
    /\ (WorkflowStep /\ job'.kind = "evaluate") =>
            /\ dbeb' = dbeb /\ dbeb_sessions' = dbeb_sessions
            /\ session_context' = session_context /\ chat' = chat
    /\ dbeb_sessions' # dbeb_sessions =>
            /\ \E t \in Threads, n \in 1..MaxSplits :
                   dbeb_sessions' = dbeb_sessions \o
                                    [i \in 1..n |-> [page_content |-> i, session_id |-> t]]
            /\ dbeb' = dbeb /\ session_context' = session_context
            /\ chat' = chat /\ job' = job /\ upload' = upload
C34_WorkflowsKeepToTheirState == [][C34_Step]_vars
C34_Witness ==
    /\ chat["r2"].pc = "finished" /\ chat["r2"].tools_runs = 1
    /\ upload.pc = "finished" /\ job.pc = "returned" /\ job.kind = "evaluate"
    /\ Len(dbeb) = 2 /\ Len(dbeb_sessions) = 2

\* C35: when the /agent ingest workflow runs with no ingestible file (no
\* upload, or only uploads that are neither .pdf nor .txt nor .md), its frames
\* are the starting status frame and then one error frame, with no done frame,
\* and no step of it changes the global collection.
NoIngestible == \A i \in 1..Len(agent.files) : ~Loadable(agent.files[i])
C35_Frames ==
    (job.kind = "ingest" /\ NoIngestible) =>
        /\ IsPrefix(job.out, <<Frame("status", <<"ingest", "starting">>),
                               Frame("error", <<"No documents to ingest">>)>>)
        /\ job.pc \in {"end", "returned"} => Len(job.out) = 2
        /\ job.pc \in {"files", "end", "returned"}
C35_Step == (job'.kind = "ingest" /\ NoIngestible' /\ job' # job) => dbeb' = dbeb
C35_NothingToIngest == []C35_Frames /\ [][C35_Step]_vars
C35_Witness ==
    /\ job.kind = "ingest" /\ job.pc = "returned" /\ agent.files # <<>> /\ NoIngestible
    /\ Len(job.out) = 2 /\ IsError(job.out[2])

\* C36: the temporary file or directory of a request on /upload,
\* /upload-session and /evaluate-candidates does not exist any more once the
\* request is over, on every path: success, a rejected input, a failure
\* while saving, parsing or storing, and a /upload stream the client leaves
\* or never consumes.
UploadOver == upload.pc \in {"answered", "finished", "dropped", "closed"}
C36_TempFilesRemoved ==
    /\ UploadOver => upload.temp_file # "exists"
    /\ session_upload.status # 0 => session_upload.temp_file # "exists"
    /\ evaluation.pc = "answered" => evaluation.temp_dir # "exists"

\* C37 (as claimed): the resume part of the prompt is the resume text itself
\* when the text has at most 6000 characters, and otherwise its first 6000
\* characters followed by the truncation marker; it never exceeds 6000
\* characters plus the marker.
Budgeted(text, part) ==
    /\ Len(text) <= MAX_RESUME_CHARS => part = text
    /\ Len(text) > MAX_RESUME_CHARS =>
            part = SubSeq(text, 1, MAX_RESUME_CHARS) \o TruncationMarker
    /\ Len(part) <= MAX_RESUME_CHARS + Len(TruncationMarker)
C37_ResumeBounded ==
    candidate.pc # "idle" => Budgeted(candidate.resume_text, candidate.trimmed_resume)
\* C37 (amended): the same of the resume text without its leading and trailing
\* whitespace.
C37_StrippedResumeBounded ==
    candidate.pc # "idle" => Budgeted(StripText(candidate.resume_text), candidate.trimmed_resume)
C37_Witness ==
    /\ candidate.pc = "returned" /\ Len(candidate.resume_text) > MAX_RESUME_CHARS + 2
    /\ candidate.resume_text[1] = " "
    /\ Len(candidate.trimmed_resume) = MAX_RESUME_CHARS + Len(TruncationMarker)

\* C38: in the standalone servers, however get_graph calls interleave,
\* build_graph runs at most once, no caller is returned an unset graph, and
\* every caller is returned the same graph object.
C38_GraphBuiltOnce ==
    /\ server.builds <= 1
    /\ \A c \in Callers : server.pc[c] = "returned" => server.result[c] # None
    /\ \A c, d \in Callers :
            (server.pc[c] = "returned" /\ server.pc[d] = "returned") =>
                server.result[c] = server.result[d]
C38_Witness ==
    /\ \A c \in Callers : server.pc[c] = "returned" /\ server.result[c] = "1"
    /\ server.builds = 1

====
